---- MODULE Spec2Model ----
(***************************************************************************)
(* A model of the OpenMP task analysis of PSyclone                         *)
(* (src/psyclone/psyir/nodes/omp_directives.py):                           *)
(*   - OMPTaskDirective: the task clause synthesizer (_compute_clauses,    *)
(*     begin_string and the _evaluate_* / _handle_index_binop helpers);    *)
(*   - OMPSerialDirective: the task-pair dependency validator              *)
(*     (_validate_satisfiable_task_dependencies).                          *)
(*                                                                         *)
(* PSyIR nodes are records tagged with their class name in field k.        *)
(* Node equality (used by Python's "in" / "not in" on lists of nodes) is   *)
(* structural, as is equality of these records.  Integer Literals carry    *)
(* their value as a number; symbols are identified by their name.          *)
(*                                                                         *)
(* The body of a task is held as the pre-order sequence of the statements  *)
(* that the recursive walk of _evaluate_node visits: a Loop is its header  *)
(* event followed by the events of its body and an "EndLoop" marker (the   *)
(* point where _evaluate_loop returns); an IfBlock is its condition event  *)
(* followed by the events of its if_body and else_body.                    *)
(***************************************************************************)
EXTENDS Integers, Sequences, FiniteSets, TLC

(***************************************************************************)
(* Bounds of the model.                                                    *)
(***************************************************************************)
\* Largest literal step of a parent (parallel-region) loop.
MaxStep == 2
\* Largest literal offset in an index  Reference +/- Literal.
MaxOff == 5
\* Number of times begin_string is called on the same task directive.
MaxRuns == 2

(***************************************************************************)
(* PSyIR expression nodes.                                                 *)
(***************************************************************************)
None == [k |-> "None"]
Lit(v) == [k |-> "Literal", value |-> v]
Ref(s) == [k |-> "Reference", symbol |-> s]
BinOp(op, l, r) == [k |-> "BinaryOperation", operator |-> op, children |-> <<l, r>>]
UnOp(op, c) == [k |-> "UnaryOperation", operator |-> op, children |-> <<c>>]
ArrRef(s, idx) == [k |-> "ArrayReference", symbol |-> s, indices |-> idx]
StructRef(s, m) == [k |-> "StructureReference", symbol |-> s, member |-> m]
RangeOf(lb, ub) == [k |-> "Range", start |-> lb, stop |-> ub]
CallOf(f) == [k |-> "Call", routine |-> f]

\* isinstance(n, Reference): Reference and its subclasses.
IsReference(n) == n.k \in {"Reference", "ArrayReference", "StructureReference"}
\* type(n) is Reference
IsPlainReference(n) == n.k = "Reference"
IsLiteral(n) == n.k = "Literal"
IsBinaryOperation(n) == n.k = "BinaryOperation"
\* isinstance(n, (ArrayReference, ArrayOfStructuresReference))
IsArrayReference(n) == n.k = "ArrayReference"

\* A variant of the guarded append that does not look for x in the list.
append_unchecked(lst, x) == Append(lst, x)

\* Python's  x in lst  /  x not in lst  on a list of nodes.
InList(x, lst) == \E n \in 1..Len(lst) : lst[n] = x
\* if x not in lst: lst.append(x.copy())
AppendNew(lst, x) == IF InList(x, lst) THEN lst ELSE Append(lst, x)

\* math.ceil(a / b) for a >= 0, b >= 1
Ceil(a, b) == (a + b - 1) \div b

\* The full range of dimension dim of array arr:
\* Range.create(LBOUND(arr, dim), UBOUND(arr, dim))
FullRange(arr, dim) ==
    RangeOf(BinOp("LBOUND", Ref(arr), Lit(dim)), BinOp("UBOUND", Ref(arr), Lit(dim)))

\* An element of index_list that is a Python list of alternative indices.
ListOf(items) == [k |-> "list", items |-> items]

\* Concatenation of a sequence of sequences.
RECURSIVE Concat(_)
Concat(ss) == IF Len(ss) = 0 THEN <<>> ELSE Head(ss) \o Concat(Tail(ss))

\* node.walk(Reference) of an expression: the References in it, pre-order.
RECURSIVE WalkReferences(_)
WalkReferences(n) ==
    IF n.k = "Reference" \/ n.k = "StructureReference" THEN <<n>>
    ELSE IF n.k = "ArrayReference"
         THEN <<n>> \o Concat([d \in 1..Len(n.indices) |-> WalkReferences(n.indices[d])])
    ELSE IF n.k = "BinaryOperation" \/ n.k = "UnaryOperation"
         THEN Concat([d \in 1..Len(n.children) |-> WalkReferences(n.children[d])])
    ELSE <<>>

(***************************************************************************)
(* The fields of an OMPTaskDirective that the helpers read are passed as a *)
(* record S ("self"):                                                      *)
(*   parallel_private  _parallel_private, the children of the enclosing    *)
(*                     parallel region's private clause;                   *)
(*   proxy_loop_vars   _proxy_loop_vars, loop variable -> binding;         *)
(*   parent_loop_vars  _parent_loop_vars;   parent_loops  _parent_loops;   *)
(*   task_loops        the variables of self.walk(Loop);                   *)
(*   deferred          the array symbols of DeferredType/UnknownType.      *)
(* The lists that _compute_clauses threads through the walk are passed as  *)
(* a record F with the fields private_list, firstprivate_list,             *)
(* shared_list, in_list, out_list and err ("" while nothing was raised),   *)
(* plus the locals of the array access evaluated last in the current       *)
(* statement: access (the ArrayReference), write (whether it is written),  *)
(* index_list and combinations.                                            *)
(***************************************************************************)
Raise(F, e) == [F EXCEPT !.err = e]

\* child_loop_vars: the variables of the loops of the task that are not
\* (currently) proxies.
child_loop_vars(S) ==
    {S.task_loops[n] : n \in {m \in 1..Len(S.task_loops) :
                                  S.task_loops[m] \notin DOMAIN S.proxy_loop_vars}}

\* list.index(x): the first position of x.
IndexOf(lst, x) == CHOOSE n \in 1..Len(lst) : lst[n] = x /\ \A m \in 1..(n-1) : lst[m] # x

\* A variant of the candidates in which the secondary candidate is an offset
\* by one step also when the divisor is 1.
offset_secondary_candidates(operator, ref_index, base_ref, literal_val, step_val) ==
    LET divisor == Ceil(literal_val, step_val)
        modulo == literal_val % step_val
        step == IF divisor > 1 THEN BinOp("MUL", Lit(divisor), Lit(step_val))
                ELSE Lit(step_val)
        step2 == IF divisor > 2 THEN BinOp("MUL", Lit(divisor - 1), Lit(step_val))
                 ELSE Lit(step_val)
        binop == IF ref_index = 0 THEN BinOp(operator, base_ref, step)
                 ELSE BinOp(operator, step, base_ref)
        binop2 == IF ref_index = 0 THEN BinOp(operator, base_ref, step2)
                  ELSE BinOp(operator, step2, base_ref)
    IN IF modulo # 0 THEN ListOf(<<binop, binop2>>) ELSE binop

\* The candidate(s) for  base_ref OP literal  under a governing loop of
\* literal step step_val: one index, or a list of two.
divisor_candidates(operator, ref_index, base_ref, literal_val, step_val) ==
    LET divisor == Ceil(literal_val, step_val)
        modulo == literal_val % step_val
        step == IF divisor > 1
                THEN BinOp("MUL", Lit(divisor), Lit(step_val))
                ELSE Lit(step_val)
        step2 == IF divisor > 1
                 THEN (IF divisor > 2
                       THEN BinOp("MUL", Lit(divisor - 1), Lit(step_val))
                       ELSE Lit(step_val))
                 ELSE None
        binop == IF ref_index = 0 THEN BinOp(operator, base_ref, step)
                 ELSE BinOp(operator, step, base_ref)
        binop2 == IF modulo # 0
                  THEN (IF step2 # None
                        THEN (IF ref_index = 0 THEN BinOp(operator, base_ref, step2)
                              ELSE BinOp(operator, step2, base_ref))
                        ELSE base_ref)
                  ELSE None
    IN IF binop2 # None THEN ListOf(<<binop, binop2>>) ELSE binop

\* OMPTaskDirective._handle_index_binop.  arrayref is ref.parent.parent, the
\* array access the index belongs to.  Returns F with index_list and
\* firstprivate_list updated, or with err set.
handle_index_binop(node, F, arrayref, S) ==
    LET c0 == node.children[1]
        c1 == node.children[2]
    IN
    IF node.operator # "ADD" /\ node.operator # "SUB"
    THEN Raise(F, "GenerationError: Binary Operator used as index")
    ELSE IF ~((IsReference(c0) /\ IsLiteral(c1)) \/ (IsLiteral(c0) /\ IsReference(c1)))
    THEN Raise(F, "GenerationError: Children of BinaryOperation")
    ELSE
    LET ref_index == IF IsReference(c0) THEN 0 ELSE 1
        ref == IF ref_index = 0 THEN c0 ELSE c1
        literal == IF ref_index = 0 THEN c1 ELSE c0
        index_symbol == ref.symbol
        index_private == InList(ref, S.parallel_private)
        is_proxy == index_symbol \in DOMAIN S.proxy_loop_vars
    IN
    IF is_proxy
    THEN LET parent_loop == S.proxy_loop_vars[index_symbol].parent_loop
             real_var == S.proxy_loop_vars[index_symbol].parent_var
         IN [F EXCEPT !.index_list = Append(@,
                divisor_candidates(node.operator, ref_index, Ref(real_var),
                                   literal.value, parent_loop.step_expr.value))]
    ELSE IF index_private
    THEN IF InList(ref, F.private_list)
         THEN \* a child loop variable or a private constant: full range
              [F EXCEPT !.index_list =
                   Append(@, FullRange(arrayref.symbol, Len(F.index_list) + 1))]
         ELSE LET fp == AppendNew(F.firstprivate_list, ref)
              IN IF InList(ref.symbol, S.parent_loop_vars)
                 THEN LET ind == IndexOf(S.parent_loop_vars, ref.symbol)
                          parent_loop == S.parent_loops[ind]
                      IN [F EXCEPT !.firstprivate_list = fp,
                                   !.index_list = Append(@,
                             divisor_candidates(node.operator, ref_index, ref,
                                 literal.value, parent_loop.step_expr.value))]
                 ELSE [F EXCEPT !.firstprivate_list = fp,
                                !.index_list = Append(@, node)]
    ELSE Raise(F, "GenerationError: Shared variable access used as an index")

\* A variant of the handling of an index that is a Reference in which the
\* index is copied whatever loop it belongs to.
index_reference_copied(index, dim, F, ref, S) ==
    IF InList(index, S.parallel_private)
    THEN [F EXCEPT !.firstprivate_list =
                       IF ~InList(index, F.private_list) THEN AppendNew(@, index) ELSE @,
                   !.index_list = Append(@, index)]
    ELSE Raise(F, "GenerationError: Shared variable access used as an index")

\* The handling of an index that is a Reference, which is the same code in
\* _evaluate_readonly_arrayref and _evaluate_write_arrayref.  dim counts
\* the dimensions from 1 (the code's dim + 1).
evaluate_index_reference(index, dim, F, ref, S) ==
    LET index_private == InList(index, S.parallel_private)
    IN IF index_private
       THEN LET fp == IF ~InList(index, F.private_list) /\ ~InList(index, F.firstprivate_list)
                      THEN Append(F.firstprivate_list, index)
                      ELSE F.firstprivate_list
                cand == IF index.symbol \in child_loop_vars(S)
                        THEN FullRange(ref.symbol, dim)
                        ELSE IF index.symbol \in DOMAIN S.proxy_loop_vars
                        THEN Ref(S.proxy_loop_vars[index.symbol].parent_var)
                        ELSE index
            IN [F EXCEPT !.firstprivate_list = fp, !.index_list = Append(@, cand)]
       ELSE Raise(F, "GenerationError: Shared variable access used as an index")

\* One iteration of the loop over ref.indices of _evaluate_readonly_arrayref.
readonly_index(index, dim, F, ref, S) ==
    IF IsPlainReference(index) THEN evaluate_index_reference(index, dim, F, ref, S)
    ELSE IF IsBinaryOperation(index) THEN handle_index_binop(index, F, ref, S)
    ELSE IF IsLiteral(index) THEN [F EXCEPT !.index_list = Append(@, index)]
    ELSE Raise(F, "GenerationError: object is not allowed to appear in an Array Index")

\* One iteration of the loop over ref.indices of _evaluate_write_arrayref:
\* an index that is no Literal, Reference or BinaryOperation falls through
\* the if/elif chain and leaves index_list as it is.
write_index(index, dim, F, ref, S) ==
    IF IsLiteral(index) THEN [F EXCEPT !.index_list = Append(@, index)]
    ELSE IF IsReference(index) THEN evaluate_index_reference(index, dim, F, ref, S)
    ELSE IF IsBinaryOperation(index) THEN handle_index_binop(index, F, ref, S)
    ELSE F

\* for dim, index in enumerate(ref.indices): ...   (stops at the first raise)
RECURSIVE evaluate_indices(_, _, _, _, _)
evaluate_indices(ref, dim, F, S, write) ==
    IF F.err # "" \/ dim > Len(ref.indices) THEN F
    ELSE evaluate_indices(ref, dim + 1,
             IF write THEN write_index(ref.indices[dim], dim, F, ref, S)
             ELSE readonly_index(ref.indices[dim], dim, F, ref, S),
             S, write)

\* new_index_list: every element of index_list as a list.
new_index_list(index_list) ==
    [n \in 1..Len(index_list) |->
        IF index_list[n].k = "list" THEN index_list[n].items ELSE <<index_list[n]>>]

\* itertools.product(*lists), in its order (the last list varies fastest).
RECURSIVE Product(_)
Product(lists) ==
    IF Len(lists) = 0 THEN << <<>> >>
    ELSE LET rest == Product(Tail(lists))
             h == Head(lists)
         IN Concat([n \in 1..Len(h) |-> [m \in 1..Len(rest) |-> <<h[n]>> \o rest[m]]])

\* ArrayReference.create(symbol, indices): a symbol of ArrayType must get as
\* many indices as it has dimensions; a symbol of DeferredType or UnknownType
\* is not checked.  rank is the declared rank of the symbol.
ArrayReference_create_raises(symbol, indices, rank, S) ==
    symbol \notin S.deferred /\ Len(indices) # rank

\* The tail of _evaluate_readonly_arrayref / _evaluate_write_arrayref: the
\* dependency clauses of all combinations are added to dep_list (in_list or
\* out_list) and the array symbol to shared_list.
RECURSIVE add_dclauses(_, _, _)
add_dclauses(dep_list, symbol, combinations) ==
    IF Len(combinations) = 0 THEN dep_list
    ELSE add_dclauses(AppendNew(dep_list, ArrRef(symbol, Head(combinations))),
                      symbol, Tail(combinations))

evaluate_arrayref(ref, F0, S, write) ==
    LET F == evaluate_indices(ref, 1, [F0 EXCEPT !.index_list = <<>>,
                                                 !.combinations = <<>>,
                                                 !.access = ref,
                                                 !.write = write], S, write)
        combinations == Product(new_index_list(F.index_list))
    IN IF F.err # "" THEN F
       ELSE IF ArrayReference_create_raises(ref.symbol, combinations[1],
                                            Len(ref.indices), S)
       THEN Raise([F EXCEPT !.combinations = combinations],
                  "GenerationError: same number of dimensions as indices")
       ELSE IF write
       THEN [F EXCEPT !.combinations = combinations,
                      !.out_list = add_dclauses(@, ref.symbol, combinations),
                      !.shared_list = AppendNew(@, Ref(ref.symbol))]
       ELSE [F EXCEPT !.combinations = combinations,
                      !.in_list = add_dclauses(@, ref.symbol, combinations),
                      !.shared_list = AppendNew(@, Ref(ref.symbol))]

\* OMPTaskDirective._evaluate_readonly_arrayref
evaluate_readonly_arrayref(ref, F, S) == evaluate_arrayref(ref, F, S, FALSE)

\* OMPTaskDirective._evaluate_write_arrayref
evaluate_write_arrayref(ref, F, S) == evaluate_arrayref(ref, F, S, TRUE)

\* A variant of _evaluate_readonly_baseref that does not look at the private
\* set of the task before it makes a symbol firstprivate.
readonly_baseref_ignoring_private(ref, F, S) ==
    IF InList(ref, S.parallel_private)
    THEN [F EXCEPT !.firstprivate_list = AppendNew(@, ref)]
    ELSE [F EXCEPT !.in_list = AppendNew(@, ref)]

\* OMPTaskDirective._evaluate_readonly_baseref
evaluate_readonly_baseref(ref, F, S) ==
    IF InList(ref, S.parallel_private)
    THEN IF ~InList(ref, F.private_list) /\ ~InList(ref, F.firstprivate_list)
         THEN [F EXCEPT !.firstprivate_list = Append(@, ref)]
         ELSE F
    ELSE [F EXCEPT !.in_list = AppendNew(@, ref)]

\* OMPTaskDirective._evaluate_readonly_reference
evaluate_readonly_reference(ref, F, S) ==
    IF IsArrayReference(ref) THEN evaluate_readonly_arrayref(ref, F, S)
    ELSE IF ref.k = "StructureReference"
    THEN evaluate_readonly_baseref(Ref(ref.symbol), F, S)
    ELSE evaluate_readonly_baseref(ref, F, S)

\* A variant of _evaluate_write_baseref that ignores the private clause of
\* the parallel region: every written symbol becomes shared and out.
write_baseref_always_shared(ref, F, S) ==
    [F EXCEPT !.shared_list = AppendNew(@, ref), !.out_list = AppendNew(@, ref)]

\* OMPTaskDirective._evaluate_write_baseref
evaluate_write_baseref(ref, F, S) ==
    LET is_private == InList(ref, S.parallel_private)
        F1 == IF is_private /\ ~InList(ref, F.private_list)
              THEN [F EXCEPT !.private_list = Append(@, ref)]
              ELSE F
    IN IF ~is_private
       THEN [F1 EXCEPT !.shared_list = AppendNew(@, ref),
                       !.out_list = AppendNew(@, ref)]
       ELSE F1

\* OMPTaskDirective._evaluate_write_reference
evaluate_write_reference(ref, F, S) ==
    IF IsArrayReference(ref) THEN evaluate_write_arrayref(ref, F, S)
    ELSE IF ref.k = "StructureReference"
    THEN evaluate_write_baseref(Ref(ref.symbol), F, S)
    ELSE evaluate_write_baseref(ref, F, S)

\* for ref in references: self._evaluate_readonly_reference(ref, ...)
RECURSIVE evaluate_reads(_, _, _)
evaluate_reads(references, F, S) ==
    IF F.err # "" \/ Len(references) = 0 THEN F
    ELSE evaluate_reads(Tail(references),
                        evaluate_readonly_reference(Head(references), F, S), S)

\* OMPTaskDirective._evaluate_assignment
evaluate_assignment(node, F, S) ==
    evaluate_reads(WalkReferences(node.rhs), evaluate_write_reference(node.lhs, F, S), S)

\* A variant of the loops over the references of the loop bounds that
\* makes every reference firstprivate that is not firstprivate yet.
RECURSIVE bound_refs_all_firstprivate(_, _)
bound_refs_all_firstprivate(refs, F) ==
    IF F.err # "" \/ Len(refs) = 0 THEN F
    ELSE LET ref == Head(refs)
         IN bound_refs_all_firstprivate(Tail(refs),
              IF IsArrayReference(ref)
              THEN Raise(F, "GenerationError: ArrayReference not supported in a Loop bound")
              ELSE [F EXCEPT !.firstprivate_list = AppendNew(@, ref)])

\* The loops over start_val_refs, stop_val_refs and step_val_refs of
\* _evaluate_loop: an array reference raises, any other reference becomes
\* firstprivate unless it is already firstprivate, private or shared.
RECURSIVE evaluate_bound_refs(_, _)
evaluate_bound_refs(refs, F) ==
    IF F.err # "" \/ Len(refs) = 0 THEN F
    ELSE LET ref == Head(refs)
         IN evaluate_bound_refs(Tail(refs),
              IF IsArrayReference(ref)
              THEN Raise(F, "GenerationError: ArrayReference not supported in a Loop bound")
              ELSE IF ~InList(ref, F.firstprivate_list) /\ ~InList(ref, F.private_list)
                      /\ ~InList(ref, F.shared_list)
              THEN [F EXCEPT !.firstprivate_list = Append(@, ref)]
              ELSE F)

\* A variant of the classification of the loop variable that makes it
\* private in the task even if it is firstprivate already.
declare_loop_variable_private(loop_var_ref, F, S) ==
    IF ~InList(loop_var_ref, S.parallel_private)
    THEN Raise(F, "GenerationError: Found shared loop variable")
    ELSE [F EXCEPT !.private_list = AppendNew(@, loop_var_ref)]

\* The classification of the loop variable in _evaluate_loop: a shared
\* loop variable raises; the loop variable becomes private in the task
\* unless it is firstprivate or private already.
declare_loop_variable(loop_var_ref, F, S) ==
    IF ~InList(loop_var_ref, S.parallel_private)
    THEN Raise(F, "GenerationError: Found shared loop variable")
    ELSE IF ~InList(loop_var_ref, F.firstprivate_list)
            /\ ~InList(loop_var_ref, F.private_list)
    THEN [F EXCEPT !.private_list = Append(@, loop_var_ref)]
    ELSE F

\* The first part of _evaluate_loop, up to the recursion into the loop body.
\* Returns the lists, the binding map and to_remove ("" for None).
evaluate_loop_header(node, F, S) ==
    LET start_val_refs == WalkReferences(node.start_expr)
        matches == IF Len(start_val_refs) = 1
                   THEN {n \in 1..Len(S.parent_loop_vars) :
                            start_val_refs[1].symbol = S.parent_loop_vars[n]}
                   ELSE {}
        index == CHOOSE n \in matches : \A m \in matches : n <= m
        to_remove == IF matches # {} THEN node.variable ELSE ""
        proxy == IF matches # {}
                 THEN (node.variable :> [parent_var |-> S.parent_loop_vars[index],
                                         loop |-> node,
                                         parent_loop |-> S.parent_loops[index]])
                      @@ S.proxy_loop_vars
                 ELSE S.proxy_loop_vars
        loop_var_ref == Ref(node.variable)
        F1 == declare_loop_variable(loop_var_ref, F, S)
        F2 == IF F1.err = "" /\ to_remove # ""
              THEN [F1 EXCEPT !.firstprivate_list =
                                  AppendNew(@, Ref(proxy[to_remove].parent_var))]
              ELSE F1
        F3 == evaluate_bound_refs(start_val_refs, F2)
        F4 == evaluate_bound_refs(WalkReferences(node.stop_expr), F3)
        F5 == evaluate_bound_refs(WalkReferences(node.step_expr), F4)
    IN [F |-> F5, proxy_loop_vars |-> proxy, to_remove |-> to_remove]

\* The end of _evaluate_loop: self._proxy_loop_vars.pop(to_remove)
Pop(map, key) == [x \in DOMAIN map \ {key} |-> map[x]]

\* OMPTaskDirective._evaluate_ifblock, the loop over the condition.
evaluate_ifblock_condition(node, F, S) ==
    evaluate_reads(WalkReferences(node.condition), F, S)

(***************************************************************************)
(* Statements of a task body.                                              *)
(***************************************************************************)
Loop(v, start, stop, step) ==
    [k |-> "Loop", variable |-> v, start_expr |-> start, stop_expr |-> stop,
     step_expr |-> step]
EndLoop == [k |-> "EndLoop"]
Assignment(lhs, rhs) == [k |-> "Assignment", lhs |-> lhs, rhs |-> rhs]
IfBlock(cond) == [k |-> "IfBlock", condition |-> cond]
EndIf == [k |-> "EndIf"]
\* Any other statement (a Call, a CodeBlock, ...).
OtherStatement == [k |-> "Call", routine |-> "sub"]

\* Nesting depth of position n of a flattened body.
Depth(body, n) ==
    Cardinality({m \in 1..(n-1) : body[m].k \in {"Loop", "IfBlock"}})
    - Cardinality({m \in 1..(n-1) : body[m].k \in {"EndLoop", "EndIf"}})
\* self.children[0].children: the positions of the statements directly in
\* the Schedule of the directive.
ScheduleChildren(body) ==
    {n \in 1..Len(body) : body[n].k \notin {"EndLoop", "EndIf"} /\ Depth(body, n) = 0}
\* The variables of self.walk(Loop), in tree order.
RECURSIVE WalkLoops(_)
WalkLoops(body) ==
    IF Len(body) = 0 THEN <<>>
    ELSE (IF Head(body).k = "Loop" THEN <<Head(body).variable>> ELSE <<>>)
         \o WalkLoops(Tail(body))

(***************************************************************************)
(* State.                                                                  *)
(*   tree              the statements of the task directive's Schedule     *)
(*   encl_loops        the Loop ancestors of the task inside its parallel  *)
(*                     region, innermost first                             *)
(*   parallel_private  the private clause of the enclosing parallel region *)
(*   parent_loop_vars, parent_loops, proxy_loop_vars                       *)
(*                     the fields _parent_loop_vars, _parent_loops and     *)
(*                     _proxy_loop_vars of the task directive              *)
(*   children          the clause children 1..5 of the task directive      *)
(*   frame             the five lists local to _compute_clauses (and the   *)
(*                     locals of the last array access evaluated)          *)
(*   pc                the statement of tree the walk has reached          *)
(*   loop_stack        to_remove of every active call of _evaluate_loop    *)
(*   status            "idle", or the state of the last call of            *)
(*                     begin_string: "running", "returned" or "raised"     *)
(*   result            the clauses _compute_clauses returned, or None      *)
(*   runs              the number of calls of begin_string so far          *)
(***************************************************************************)
VARIABLES tree, encl_loops, parallel_private, parent_loop_vars, parent_loops,
          proxy_loop_vars, children, frame, pc, loop_stack, status, result, runs,
          tasks, task_pairs, phase, var1, visited, verdict,
          region, par_children, par_phase, par_todo, par_result, par_clause,
          par_previous, par_runs,
          ancestry, dir_node, dir_outcome,
          sig_a, sig_b, sig_how, sig_cmp

\* The state of an OMPTaskDirective and of a call of its begin_string.
task_vars == <<tree, encl_loops, parallel_private, parent_loop_vars, parent_loops,
               proxy_loop_vars, children, frame, pc, loop_stack, status, result, runs>>

\* The state of an OMPSerialDirective and of a call of its
\* _validate_satisfiable_task_dependencies: the task directives of the
\* region, the pairs of tasks still to be checked (the first is the current
\* one), the loop the call is in ("ins": for invar in task1_ins.children,
\* "outs": for outvar in task1_outs.children), the position of that loop, the
\* entries of the second task the inner loop has got to, and how the call
\* has ended.
\* ancestry holds the kinds of the ancestors of the
\* OMPSerialDirective, innermost first.
serial_vars == <<tasks, task_pairs, phase, var1, visited, verdict, ancestry>>

\* The state of an OMPParallelDirective and of a call of its begin_string:
\* the region (see ParallelRegions), the children of the directive, the
\* place the call of _get_private_clause is at, the kernels or signatures its
\* loop has still to visit, the set result, the clause the call has returned,
\* the clause the call before it had returned, and the number of calls.
parallel_vars == <<region, par_children, par_phase, par_todo, par_result,
                   par_clause, par_previous, par_runs>>

\* An OMPTaskDirective or OMPTaskloopDirective whose
\* validate_global_constraints is called (see DirectiveNodes), and how the
\* call has ended.
structure_vars == <<dir_node, dir_outcome>>

\* Two Signature objects (None before they are constructed), the kinds of
\* the arguments they were constructed from, and the results of comparing
\* and hashing them.
signature_vars == <<sig_a, sig_b, sig_how, sig_cmp>>

vars == <<task_vars, serial_vars, parallel_vars, structure_vars, signature_vars>>

\* The array symbols whose type is not resolved (DeferredType).
DeferredArrays == {"u"}

EmptyMap == [x \in {} |-> None]

EmptyFrame ==
    [private_list |-> <<>>, firstprivate_list |-> <<>>, shared_list |-> <<>>,
     in_list |-> <<>>, out_list |-> <<>>, err |-> "",
     index_list |-> <<>>, combinations |-> <<>>, access |-> None, write |-> FALSE]

\* The locals of an array access do not outlive the statement it is in.
NoAccess(F) ==
    [F EXCEPT !.index_list = <<>>, !.combinations = <<>>, !.access = None,
              !.write = FALSE]

\* The clauses a task directive is constructed with (__init__).
EmptyClauses ==
    [private |-> <<>>, firstprivate |-> <<>>, shared |-> <<>>, in |-> <<>>, out |-> <<>>]

Self ==
    [parallel_private |-> parallel_private, proxy_loop_vars |-> proxy_loop_vars,
     parent_loop_vars |-> parent_loop_vars, parent_loops |-> parent_loops,
     task_loops |-> WalkLoops(tree), deferred |-> DeferredArrays]

\* The end of _compute_clauses: the clauses built from the five lists.
clauses_of(F) ==
    [private |-> F.private_list, firstprivate |-> F.firstprivate_list,
     shared |-> F.shared_list, in |-> F.in_list, out |-> F.out_list]

\* A variant of begin_string in which the clauses built so far are made the
\* children of the directive at every step of the call.
attach_partial_children(old, F, returned) ==
    LET new == clauses_of(F)
    IN [c \in DOMAIN old |-> IF new[c] # old[c] THEN new[c] ELSE old[c]]

\* A variant of begin_string in which the clauses returned by a call are
\* added to the clause children the directive has.
accumulate_children(old, F, returned) ==
    IF returned
    THEN LET new == clauses_of(F)
         IN [c \in DOMAIN old |-> old[c] \o new[c]]
    ELSE old

\* begin_string: the clause children after a step of the call.  They are
\* assigned after _compute_clauses has returned (returned = TRUE); while it
\* runs, and when it raises, no child is touched.
begin_string_children(old, F, returned) ==
    IF returned
    THEN LET new == clauses_of(F)
         IN [c \in DOMAIN old |-> IF new[c] # old[c] THEN new[c] ELSE old[c]]
    ELSE old

StatusAfter(F) == IF F.err # "" THEN "raised" ELSE "running"

\* A variant of the checks on the Schedule that accepts every Schedule.
no_schedule_error(body) == ""

\* The checks of _compute_clauses on the Schedule of the directive: the
\* GenerationError raised, "" if none.
schedule_error(body) ==
    IF Cardinality(ScheduleChildren(body)) # 1
    THEN "GenerationError: must have exactly one Loop child"
    ELSE IF body[1].k # "Loop" THEN "GenerationError: child is not a Loop"
    ELSE ""

\* begin_string is called: _compute_clauses starts with
\* _find_parent_loop_vars and the checks on the Schedule of the directive.
BeginString ==
    /\ status \in {"idle", "returned", "raised"}
    /\ runs < MaxRuns
    /\ runs' = runs + 1
    /\ parent_loop_vars' =
           parent_loop_vars \o [n \in 1..Len(encl_loops) |-> encl_loops[n].variable]
    /\ parent_loops' = parent_loops \o encl_loops
    /\ LET F == IF schedule_error(tree) # "" THEN Raise(EmptyFrame, schedule_error(tree))
                ELSE EmptyFrame
       IN /\ frame' = F
          /\ status' = StatusAfter(F)
          /\ children' = begin_string_children(children, F, FALSE)
    /\ pc' = 1
    /\ loop_stack' = <<>>
    /\ result' = None
    /\ UNCHANGED <<tree, encl_loops, parallel_private, proxy_loop_vars>>
    /\ UNCHANGED serial_vars
    /\ UNCHANGED parallel_vars
    /\ UNCHANGED <<structure_vars, signature_vars>>

Running(kind) == status = "running" /\ pc <= Len(tree) /\ tree[pc].k = kind

\* _evaluate_node reaches an Assignment.
EvaluateAssignment ==
    /\ Running("Assignment")
    /\ LET F == evaluate_assignment(tree[pc], NoAccess(frame), Self)
       IN /\ frame' = F
          /\ status' = StatusAfter(F)
          /\ children' = begin_string_children(children, F, FALSE)
    /\ pc' = pc + 1
    /\ UNCHANGED <<tree, encl_loops, parallel_private, parent_loop_vars, parent_loops,
                   proxy_loop_vars, loop_stack, result, runs>>
    /\ UNCHANGED serial_vars
    /\ UNCHANGED parallel_vars
    /\ UNCHANGED <<structure_vars, signature_vars>>

\* _evaluate_node reaches a Loop: _evaluate_loop up to the recursion.
EvaluateLoop ==
    /\ Running("Loop")
    /\ LET R == evaluate_loop_header(tree[pc], NoAccess(frame), Self)
       IN /\ frame' = R.F
          /\ proxy_loop_vars' = R.proxy_loop_vars
          /\ loop_stack' = Append(loop_stack, R.to_remove)
          /\ status' = StatusAfter(R.F)
          /\ children' = begin_string_children(children, R.F, FALSE)
    /\ pc' = pc + 1
    /\ UNCHANGED <<tree, encl_loops, parallel_private, parent_loop_vars, parent_loops,
                   result, runs>>
    /\ UNCHANGED serial_vars
    /\ UNCHANGED parallel_vars
    /\ UNCHANGED <<structure_vars, signature_vars>>

\* The body of a Loop is done: the end of _evaluate_loop.
LeaveLoop ==
    /\ Running("EndLoop")
    /\ LET to_remove == loop_stack[Len(loop_stack)]
           F == IF to_remove # "" /\ to_remove \notin DOMAIN proxy_loop_vars
                THEN Raise(NoAccess(frame), "KeyError")
                ELSE NoAccess(frame)
       IN /\ proxy_loop_vars' = IF to_remove # "" THEN Pop(proxy_loop_vars, to_remove)
                                ELSE proxy_loop_vars
          /\ frame' = F
          /\ status' = StatusAfter(F)
          /\ children' = begin_string_children(children, F, FALSE)
    /\ loop_stack' = SubSeq(loop_stack, 1, Len(loop_stack) - 1)
    /\ pc' = pc + 1
    /\ UNCHANGED <<tree, encl_loops, parallel_private, parent_loop_vars, parent_loops,
                   result, runs>>
    /\ UNCHANGED serial_vars
    /\ UNCHANGED parallel_vars
    /\ UNCHANGED <<structure_vars, signature_vars>>

\* _evaluate_node reaches an IfBlock: the condition is read.
EvaluateIfBlock ==
    /\ Running("IfBlock")
    /\ LET F == evaluate_ifblock_condition(tree[pc], NoAccess(frame), Self)
       IN /\ frame' = F
          /\ status' = StatusAfter(F)
          /\ children' = begin_string_children(children, F, FALSE)
    /\ pc' = pc + 1
    /\ UNCHANGED <<tree, encl_loops, parallel_private, parent_loop_vars, parent_loops,
                   proxy_loop_vars, loop_stack, result, runs>>
    /\ UNCHANGED serial_vars
    /\ UNCHANGED parallel_vars
    /\ UNCHANGED <<structure_vars, signature_vars>>

\* The bodies of an IfBlock are done: _evaluate_ifblock returns.
LeaveIfBlock ==
    /\ Running("EndIf")
    /\ pc' = pc + 1
    /\ frame' = NoAccess(frame)
    /\ children' = begin_string_children(children, frame, FALSE)
    /\ UNCHANGED <<tree, encl_loops, parallel_private, parent_loop_vars, parent_loops,
                   proxy_loop_vars, loop_stack, status, result, runs>>
    /\ UNCHANGED serial_vars
    /\ UNCHANGED parallel_vars
    /\ UNCHANGED <<structure_vars, signature_vars>>

\* _evaluate_node reaches any other node, which it ignores.
EvaluateOther ==
    /\ status = "running" /\ pc <= Len(tree)
    /\ tree[pc].k \notin {"Assignment", "Loop", "EndLoop", "IfBlock", "EndIf"}
    /\ pc' = pc + 1
    /\ frame' = NoAccess(frame)
    /\ children' = begin_string_children(children, frame, FALSE)
    /\ UNCHANGED <<tree, encl_loops, parallel_private, parent_loop_vars, parent_loops,
                   proxy_loop_vars, loop_stack, status, result, runs>>
    /\ UNCHANGED serial_vars
    /\ UNCHANGED parallel_vars
    /\ UNCHANGED <<structure_vars, signature_vars>>

\* The walk is over: _compute_clauses returns the clauses and begin_string
\* makes them the children of the directive.
ReturnClauses ==
    /\ status = "running" /\ pc = Len(tree) + 1
    /\ result' = clauses_of(frame)
    /\ children' = begin_string_children(children, frame, TRUE)
    /\ status' = "returned"
    /\ UNCHANGED <<tree, encl_loops, parallel_private, parent_loop_vars, parent_loops,
                   proxy_loop_vars, frame, pc, loop_stack, runs>>
    /\ UNCHANGED serial_vars
    /\ UNCHANGED parallel_vars
    /\ UNCHANGED <<structure_vars, signature_vars>>

(***************************************************************************)
(* The trees the synthesizer is run on.  Symbols: i is the variable of the *)
(* loop enclosing the task, ii and j are variables of loops of the task,   *)
(* k and n are scalars, s is a structure, a and b are arrays of ArrayType  *)
(* and u is an array of DeferredType.                                      *)
(***************************************************************************)
Offsets == 0..MaxOff
Steps == 1..MaxStep

\* Indices of the form Reference +/- Literal and Literal + Reference.
BinopIndices ==
    {BinOp(op, Ref(v), Lit(o)) : op \in {"ADD", "SUB"}, v \in {"ii", "i"}, o \in Offsets}
    \cup {BinOp("ADD", Lit(o), Ref("ii")) : o \in Offsets}

\* Index shapes the analysis does not support.
UnsupportedIndices ==
    {RangeOf(Lit(1), Lit(2)), CallOf("f"), UnOp("MINUS", Ref("ii")),
     BinOp("MUL", Ref("ii"), Lit(2)), BinOp("ADD", Ref("ii"), Ref("k")),
     ArrRef("b", <<Lit(1)>>)}

OtherIndices ==
    {Lit(1), Ref("ii"), Ref("j"), Ref("k"), Ref("n"), Ref("i"),
     BinOp("ADD", Ref("k"), Lit(1)), BinOp("ADD", Ref("j"), Lit(1)),
     BinOp("ADD", Ref("n"), Lit(1))}

Indices == BinopIndices \cup UnsupportedIndices \cup OtherIndices

\* Indices used in the accesses to arrays of rank 2.
Indices2 ==
    {Lit(1), Ref("ii"), Ref("j"), BinOp("ADD", Ref("ii"), Lit(1)),
     BinOp("SUB", Ref("ii"), Lit(MaxOff)), CallOf("f")}

ArrayStatements ==
    {Assignment(ArrRef("a", <<x>>), Lit(0)) : x \in Indices}
    \cup {Assignment(Ref("k"), ArrRef("a", <<x>>)) : x \in Indices}
    \cup {Assignment(ArrRef("u", <<x>>), Lit(0)) : x \in UnsupportedIndices \cup {Ref("ii")}}
    \cup {Assignment(ArrRef("a", <<x, y>>), ArrRef("u", <<y, x>>)) :
              x \in Indices2, y \in Indices2}

ScalarStatements ==
    {Assignment(Ref("k"), Ref("n")), Assignment(Ref("n"), Ref("k")),
     Assignment(Ref("k"), Ref("k")),
     Assignment(StructRef("s", "m"), Ref("k")),
     Assignment(Ref("k"), StructRef("s", "m"))}

Statements == ArrayStatements \cup ScalarStatements

\* The loop of the task: a chunk of the enclosing loop (start i), a loop of
\* its own (start 1), and loops with an unsupported start expression.
TaskLoops ==
    {Loop("ii", start, BinOp("ADD", Ref("i"), Ref("n")), Lit(1)) :
         start \in {Ref("i"), Lit(1), ArrRef("b", <<Lit(1)>>)}}

\* Statements in front of the statement of interest.
Prefixes == {<<>>, <<Assignment(Ref("k"), Ref("j"))>>, <<OtherStatement>>}

\* The statement of interest: directly in the loop of the task, in a loop
\* nested in it, or in an IfBlock.
Wrapped(stmt) ==
    {<<stmt>>,
     <<Loop("j", Lit(1), Ref("k"), Lit(1)), stmt, EndLoop>>,
     <<IfBlock(BinOp("GT", Ref("k"), ArrRef("a", <<Ref("ii")>>))), stmt, EndIf>>}

WellFormedTrees ==
    {<<l>> \o p \o w \o <<EndLoop>> :
         l \in TaskLoops, p \in Prefixes, w \in UNION {Wrapped(st) : st \in Statements}}

\* Schedules that are not exactly one Loop.
MalformedTrees ==
    {<<>>, <<Assignment(Ref("k"), Lit(1))>>,
     <<Loop("ii", Lit(1), Ref("n"), Lit(1)), EndLoop, Assignment(Ref("k"), Lit(1))>>}

Trees == WellFormedTrees \cup MalformedTrees

\* The private clause of the parallel region (sorted by name): all scalars
\* but n; the same with ii shared; the same with k shared and the
\* structure s private.
PrivateClauses ==
    {<<Ref("i"), Ref("ii"), Ref("j"), Ref("k")>>,
     <<Ref("i"), Ref("j"), Ref("k")>>,
     <<Ref("i"), Ref("ii"), Ref("j"), Ref("s")>>}

\* The task sits directly in the region, or in a loop over i of literal step.
EnclosingLoops ==
    {<<>>} \cup {<<Loop("i", Lit(1), Ref("n"), Lit(st))>> : st \in Steps}

\* No parallel directive is looked at.
NoRegion == [in_loop |-> FALSE, kernels |-> <<>>, accesses |-> <<>>]

Init ==
    /\ tree \in Trees
    /\ encl_loops \in EnclosingLoops
    /\ parallel_private \in PrivateClauses
    /\ parent_loop_vars = <<>>
    /\ parent_loops = <<>>
    /\ proxy_loop_vars = EmptyMap
    /\ children = EmptyClauses
    /\ frame = EmptyFrame
    /\ pc = 0
    /\ loop_stack = <<>>
    /\ status = "idle"
    /\ result = None
    /\ runs = 0
    /\ tasks = <<>>
    /\ task_pairs = <<>>
    /\ phase = "idle"
    /\ var1 = 0
    /\ visited = {}
    /\ verdict = ""
    /\ region = NoRegion
    /\ par_children = <<>>
    /\ par_phase = "idle"
    /\ par_todo = <<>>
    /\ par_result = {}
    /\ par_clause = None
    /\ par_previous = None
    /\ par_runs = 0
    /\ ancestry = <<>>
    /\ dir_node = None
    /\ dir_outcome = ""
    /\ sig_a = None
    /\ sig_b = None
    /\ sig_how = <<>>
    /\ sig_cmp = None

Next ==
    \/ BeginString
    \/ EvaluateAssignment
    \/ EvaluateLoop
    \/ LeaveLoop
    \/ EvaluateIfBlock
    \/ LeaveIfBlock
    \/ EvaluateOther
    \/ ReturnClauses

Spec == Init /\ [][Next]_vars

(***************************************************************************)
(* OMPSerialDirective._validate_satisfiable_task_dependencies.  The call   *)
(* reads the dependency clauses of the task directives of the region:      *)
(* children[4] (depend in) and children[5] (depend out), which are empty   *)
(* until begin_string of the task has been called.                         *)
(***************************************************************************)
MaxTasks == 3

\* node.ancestor(kinds): the first node of the path that is of one of the
\* kinds, None if there is none.  The path starts at the parent of the
\* node, or at the node itself for include_self=True.
ancestor(path, kinds) ==
    IF \E n \in 1..Len(path) : path[n] \in kinds
    THEN path[CHOOSE n \in 1..Len(path) :
                  path[n] \in kinds /\ \A m \in 1..(n-1) : path[m] \notin kinds]
    ELSE "None"

\* isinstance(node, OMPSerialDirective): class OMPSingleDirective and class
\* OMPMasterDirective derive from OMPSerialDirective.
SerialKinds == {"OMPSerialDirective", "OMPSingleDirective", "OMPMasterDirective"}

\* isinstance(node, OMPParallelDirective): class OMPParallelDoDirective
\* derives from OMPParallelDirective.
ParallelKinds == {"OMPParallelDirective", "OMPParallelDoDirective"}

\* A variant of the checks of a serial directive that does not look for an
\* enclosing serial directive.
parallel_only_constraints_error(path) ==
    IF ancestor(path, ParallelKinds \ {"OMPParallelDoDirective"}) = "None"
    THEN "GenerationError: must be inside an OMP parallel region"
    ELSE ""

\* The checks of OMPSerialDirective.validate_global_constraints that come
\* before the validation of the task dependencies: the GenerationError
\* raised, "" if none.  path holds the kinds of the ancestors of the
\* directive, innermost first.
serial_constraints_error(path) ==
    IF ancestor(path, ParallelKinds \ {"OMPParallelDoDirective"}) = "None"
    THEN "GenerationError: must be inside an OMP parallel region"
    ELSE IF ancestor(path, SerialKinds) # "None"
    THEN "GenerationError: must not be inside another OpenMP serial region"
    ELSE ""

\* itertools.combinations(tasks, 2), as pairs of positions in tasks.
RECURSIVE combinations(_, _, _)
combinations(a, b, n) ==
    IF a >= n THEN <<>>
    ELSE IF b > n THEN combinations(a + 1, a + 2, n)
    ELSE << <<a, b>> >> \o combinations(a, b + 1, n)

\* zip(l1, l2): tuples of the elements at the same position, as many as the
\* shorter list has.
zip(l1, l2) ==
    [n \in 1..(IF Len(l1) < Len(l2) THEN Len(l1) ELSE Len(l2)) |->
        [k |-> "tuple", items |-> <<l1[n], l2[n]>>]]

\* The objects that have an attribute symbol.
HasSymbol(x) == x.k \in {"Reference", "ArrayReference", "StructureReference"}

\* The body of  for var2 in zip(...)  for one var2: the exception it raises,
\* "" if none.  var2.symbol of a tuple raises AttributeError; ArrayMixin is
\* not a name of the module.
check_var2(var, var2) ==
    IF ~HasSymbol(var2) THEN "AttributeError"
    ELSE IF var.symbol # var2.symbol THEN ""
    ELSE "NameError"

\* for var2 in zip(task2_ins.children, task2_outs.children): the exception
\* raised and the number of tuples the loop has got to.
RECURSIVE for_var2(_, _, _)
for_var2(var, zipped, n) ==
    IF n > Len(zipped) THEN [exc |-> "", reached |-> n - 1]
    ELSE IF check_var2(var, zipped[n]) # ""
    THEN [exc |-> check_var2(var, zipped[n]), reached |-> n]
    ELSE for_var2(var, zipped, n + 1)

task1 == tasks[task_pairs[1][1]]
task2 == tasks[task_pairs[1][2]]

\* One iteration of  for invar in task1_ins.children  (outs = FALSE) or of
\* for outvar in task1_outs.children  (outs = TRUE).
check_var1(outs) ==
    LET var == IF outs THEN task1.children.out[var1] ELSE task1.children.in[var1]
        zipped == zip(task2.children.in, task2.children.out)
        R == for_var2(var, zipped, 1)
    IN /\ visited' = visited \cup
              {<<task_pairs[1], var, zipped[n].items[m]>> :
                   n \in 1..R.reached, m \in 1..2}
       /\ IF R.exc # ""
          THEN verdict' = R.exc /\ phase' = "done" /\ var1' = var1
          ELSE verdict' = verdict /\ phase' = phase /\ var1' = var1 + 1
       /\ UNCHANGED <<tasks, task_pairs>>

\* The call starts: tasks = self.walk(OMPTaskDirective), the return when
\* there is none, and the pairs of tasks.
ValidateStart ==
    /\ phase = "idle"
    /\ IF serial_constraints_error(ancestry) # ""
       THEN /\ phase' = "done"
            /\ verdict' = serial_constraints_error(ancestry)
            /\ UNCHANGED <<task_pairs, var1>>
       ELSE /\ task_pairs' = combinations(1, 2, Len(tasks))
            /\ IF Len(tasks) < 2
               THEN phase' = "done" /\ verdict' = "ok"
               ELSE phase' = "ins" /\ verdict' = verdict
            /\ var1' = 1
    /\ UNCHANGED <<tasks, visited>>
    /\ UNCHANGED ancestry
    /\ UNCHANGED task_vars
    /\ UNCHANGED parallel_vars
    /\ UNCHANGED <<structure_vars, signature_vars>>

\* for invar in task1_ins.children: one invar.
CheckInvar ==
    /\ phase = "ins" /\ var1 <= Len(task1.children.in)
    /\ check_var1(FALSE)
    /\ UNCHANGED ancestry
    /\ UNCHANGED task_vars
    /\ UNCHANGED parallel_vars
    /\ UNCHANGED <<structure_vars, signature_vars>>

\* The loop over task1_ins.children is over.
InvarsDone ==
    /\ phase = "ins" /\ var1 > Len(task1.children.in)
    /\ phase' = "outs"
    /\ var1' = 1
    /\ UNCHANGED <<tasks, task_pairs, visited, verdict>>
    /\ UNCHANGED ancestry
    /\ UNCHANGED task_vars
    /\ UNCHANGED parallel_vars
    /\ UNCHANGED <<structure_vars, signature_vars>>

\* for outvar in task1_outs.children: one outvar.
CheckOutvar ==
    /\ phase = "outs" /\ var1 <= Len(task1.children.out)
    /\ check_var1(TRUE)
    /\ UNCHANGED ancestry
    /\ UNCHANGED task_vars
    /\ UNCHANGED parallel_vars
    /\ UNCHANGED <<structure_vars, signature_vars>>

\* The loop over task1_outs.children is over: the next pair of tasks, or
\* the return.
NextTaskPair ==
    /\ phase = "outs" /\ var1 > Len(task1.children.out)
    /\ task_pairs' = Tail(task_pairs)
    /\ IF Len(task_pairs) = 1
       THEN phase' = "done" /\ verdict' = "ok"
       ELSE phase' = "ins" /\ verdict' = verdict
    /\ var1' = 1
    /\ UNCHANGED <<tasks, visited>>
    /\ UNCHANGED ancestry
    /\ UNCHANGED task_vars
    /\ UNCHANGED parallel_vars
    /\ UNCHANGED <<structure_vars, signature_vars>>

\* begin_string of a task directive whose Schedule is a loop over ii from
\* the variable i of the enclosing loop, with one statement in it: the
\* clause children it leaves on the directive.
task_children(stmt, parent_loop) ==
    LET task_loop == Loop("ii", Ref("i"), BinOp("ADD", Ref("i"), Ref("n")), Lit(1))
        S0 == [parallel_private |-> <<Ref("i"), Ref("ii"), Ref("j")>>,
               proxy_loop_vars |-> EmptyMap,
               parent_loop_vars |-> <<"i">>, parent_loops |-> <<parent_loop>>,
               task_loops |-> <<"ii">>, deferred |-> DeferredArrays]
        R == evaluate_loop_header(task_loop, EmptyFrame, S0)
        S1 == [S0 EXCEPT !.proxy_loop_vars = R.proxy_loop_vars]
        F == IF stmt.k = "Assignment" THEN evaluate_assignment(stmt, R.F, S1)
             ELSE evaluate_ifblock_condition(stmt, R.F, S1)
    IN begin_string_children(EmptyClauses, F, F.err = "")

\* The statements of the tasks of the region.
TaskIndices == {Ref("ii"), BinOp("ADD", Ref("ii"), Lit(1)), Lit(1), Lit(2)}
TaskStatements ==
    {Assignment(ArrRef("a", <<x>>), Lit(0)) : x \in TaskIndices}
    \cup {IfBlock(BinOp("GT", ArrRef("a", <<x>>), Lit(0))) : x \in TaskIndices}
    \cup {Assignment(ArrRef("b", <<Ref("ii")>>), ArrRef("a", <<Ref("ii")>>))}

\* The loops over i of the region that enclose the tasks.
SerialLoops ==
    {Loop("i", start, Ref("n"), Lit(st)) : start \in {Lit(1), Ref("m")}, st \in Steps}

\* A task directive of the region: the loop it is in and its clause
\* children, which are the ones it was constructed with or the ones
\* begin_string has left.
TaskDirectives ==
    UNION {{[loop |-> l, children |-> c] :
                c \in {EmptyClauses} \cup {task_children(st, l) : st \in TaskStatements}} :
           l \in SerialLoops}

InitValidate ==
    /\ tree = <<>>
    /\ encl_loops = <<>>
    /\ parallel_private = <<Ref("i"), Ref("ii"), Ref("j")>>
    /\ parent_loop_vars = <<>>
    /\ parent_loops = <<>>
    /\ proxy_loop_vars = EmptyMap
    /\ children = EmptyClauses
    /\ frame = EmptyFrame
    /\ pc = 0
    /\ loop_stack = <<>>
    /\ status = "idle"
    /\ result = None
    /\ runs = 0
    /\ tasks \in UNION {[1..n -> TaskDirectives] : n \in 0..MaxTasks}
    /\ task_pairs = <<>>
    /\ phase = "idle"
    /\ var1 = 0
    /\ visited = {}
    /\ verdict = ""
    /\ region = NoRegion
    /\ par_children = <<>>
    /\ par_phase = "idle"
    /\ par_todo = <<>>
    /\ par_result = {}
    /\ par_clause = None
    /\ par_previous = None
    /\ par_runs = 0
    /\ ancestry = <<"OMPParallelDirective">>
    /\ dir_node = None
    /\ dir_outcome = ""
    /\ sig_a = None
    /\ sig_b = None
    /\ sig_how = <<>>
    /\ sig_cmp = None

NextValidate ==
    \/ ValidateStart
    \/ CheckInvar
    \/ InvarsDone
    \/ CheckOutvar
    \/ NextTaskPair

SpecValidate == InitValidate /\ [][NextValidate]_vars

(***************************************************************************)
(* OMPParallelDirective._get_private_clause and begin_string.              *)
(*                                                                         *)
(* region.in_loop   the directive is in the body of a Loop;                *)
(* region.kernels   call.local_vars() of every call of self.kernels();     *)
(* region.accesses  for every signature of var_accesses.all_signatures     *)
(*                  its name and all_accesses, in program order.  An       *)
(*                  access has is_array (it has indices), access_type and  *)
(*                  place: "region" for a Reference directly in the body   *)
(*                  of the directive, "loop" for a Reference in a Loop of  *)
(*                  the body, "loopvar" when the node of the access is     *)
(*                  that Loop itself, and "kernel" for a node of a called  *)
(*                  kernel, which has no Loop and no InvokeSchedule above. *)
(***************************************************************************)
\* variable_name.lower() and str(signature).lower()
lower(name) == IF name = "T" THEN "t" ELSE IF name = "KW" THEN "kw" ELSE name

\* The lower-case names in the order of Python's comparison of strings.
NamesInOrder == <<"kw", "t", "zw">>

\* A variant of the sorted list: the names in descending order.
descending_list(names) ==
    LET asc == SelectSeq(NamesInOrder, LAMBDA n : n \in names)
    IN [n \in 1..Len(asc) |-> asc[Len(asc) + 1 - n]]

\* list_result = list(result); list_result.sort()
sorted_list(names) == SelectSeq(NamesInOrder, LAMBDA n : n \in names)

\* The node of the access and the nodes above it, innermost first.
ancestors(access, in_loop) ==
    LET outer == (IF in_loop THEN <<"Loop">> ELSE <<>>) \o <<"InvokeSchedule">>
    IN CASE access.place = "region" -> <<"Reference", "OMPParallelDirective">> \o outer
         [] access.place = "loop" ->
                <<"Reference", "Loop", "OMPParallelDirective">> \o outer
         [] access.place = "loopvar" -> <<"Loop", "OMPParallelDirective">> \o outer
         [] OTHER -> <<"Reference">>

\* The body of  for signature in var_accesses.all_signatures : whether the
\* signature is added to result.
signature_is_private(sig, in_loop) ==
    LET accesses == sig.accesses
    IN IF accesses[1].is_array THEN FALSE
       ELSE IF Len(accesses) = 1 THEN FALSE
       ELSE IF accesses[1].access_type = "WRITE"
       THEN ancestor(ancestors(accesses[1], in_loop), {"Loop", "InvokeSchedule"}) = "Loop"
       ELSE FALSE

\* The body of  for call in self.kernels()  for one call: the names added to
\* result, and whether InternalError is raised.
RECURSIVE local_vars_of_call(_, _)
local_vars_of_call(local_vars, names) ==
    IF Len(local_vars) = 0 THEN [result |-> names, raised |-> FALSE]
    ELSE IF Head(local_vars) = "" THEN [result |-> names, raised |-> TRUE]
    ELSE local_vars_of_call(Tail(local_vars), names \cup {lower(Head(local_vars))})

\* The OMPPrivateClause with a Reference to the symbol of every name.
OMPPrivateClause(list_result) ==
    [k |-> "OMPPrivateClause",
     children |-> [n \in 1..Len(list_result) |-> Ref(list_result[n])]]

\* self.addchild(child, index): list.insert.
addchild(old, child, index) ==
    IF index >= Len(old) THEN Append(old, child)
    ELSE SubSeq(old, 1, index) \o <<child>> \o SubSeq(old, index + 1, Len(old))

\* OMPParallelDirective.begin_string: the children after the call.
parallel_begin_string(old, private_clause) ==
    IF Len(old) >= 3
    THEN IF private_clause # old[3]
         THEN IF old[3].k = "OMPPrivateClause"
              THEN [old EXCEPT ![3] = private_clause]
              ELSE addchild(old, private_clause, 2)
         ELSE old
    ELSE addchild(old, private_clause, 2)

\* begin_string is called and calls _get_private_clause.
ParallelBeginString ==
    /\ par_phase \in {"idle", "returned", "raised"}
    /\ par_runs < MaxRuns
    /\ par_runs' = par_runs + 1
    /\ par_phase' = "kernels"
    /\ par_todo' = region.kernels
    /\ par_result' = {}
    /\ par_previous' = par_clause
    /\ par_clause' = None
    /\ UNCHANGED <<region, par_children>>
    /\ UNCHANGED <<task_vars, serial_vars, structure_vars, signature_vars>>

\* for call in self.kernels(): one call.
KernelLocalVars ==
    /\ par_phase = "kernels" /\ par_todo # <<>>
    /\ LET R == local_vars_of_call(Head(par_todo), par_result)
       IN /\ par_result' = R.result
          /\ par_phase' = IF R.raised THEN "raised" ELSE par_phase
    /\ par_todo' = Tail(par_todo)
    /\ UNCHANGED <<region, par_children, par_clause, par_previous, par_runs>>
    /\ UNCHANGED <<task_vars, serial_vars, structure_vars, signature_vars>>

\* The loop over the kernels is over: self.reference_accesses(var_accesses).
ReferenceAccesses ==
    /\ par_phase = "kernels" /\ par_todo = <<>>
    /\ par_phase' = "signatures"
    /\ par_todo' = region.accesses
    /\ UNCHANGED <<region, par_children, par_result, par_clause, par_previous, par_runs>>
    /\ UNCHANGED <<task_vars, serial_vars, structure_vars, signature_vars>>

\* for signature in var_accesses.all_signatures: one signature.
SignatureAccesses ==
    /\ par_phase = "signatures" /\ par_todo # <<>>
    /\ par_result' = IF signature_is_private(Head(par_todo), region.in_loop)
                     THEN par_result \cup {lower(Head(par_todo).signature)}
                     ELSE par_result
    /\ par_todo' = Tail(par_todo)
    /\ UNCHANGED <<region, par_children, par_phase, par_clause, par_previous, par_runs>>
    /\ UNCHANGED <<task_vars, serial_vars, structure_vars, signature_vars>>

\* The sorted list, the clause made of it and returned, and the end of
\* begin_string, which makes it a child of the directive.
ReturnPrivateClause ==
    /\ par_phase = "signatures" /\ par_todo = <<>>
    /\ LET priv_clause == OMPPrivateClause(sorted_list(par_result))
       IN /\ par_clause' = priv_clause
          /\ par_children' = parallel_begin_string(par_children, priv_clause)
    /\ par_phase' = "returned"
    /\ UNCHANGED <<region, par_todo, par_result, par_previous, par_runs>>
    /\ UNCHANGED <<task_vars, serial_vars, structure_vars, signature_vars>>

\* The accesses a signature starts with, and the accesses after the first.
FirstAccesses ==
    {[is_array |-> a, access_type |-> t, place |-> p] :
        a \in BOOLEAN, t \in {"READ", "WRITE"}, p \in {"region", "loop", "kernel"}}
    \cup {[is_array |-> FALSE, access_type |-> "WRITE", place |-> "loopvar"]}
LaterAccess(a) == [is_array |-> a, access_type |-> "READ", place |-> "loop"]
LaterAccesses ==
    {<<>>, <<LaterAccess(FALSE)>>, <<LaterAccess(TRUE)>>,
     <<LaterAccess(FALSE), LaterAccess(FALSE)>>}

\* The signatures of a region and their accesses: none, t, or t and zw.
SignaturesOf(name, firsts, laters) ==
    {[signature |-> name, accesses |-> <<f>> \o l] : f \in firsts, l \in laters}
RegionAccesses ==
    {<<>>}
    \cup {<<st>> : st \in SignaturesOf("t", FirstAccesses, LaterAccesses)}
    \cup {<<st, sz>> :
             st \in SignaturesOf("t", FirstAccesses, LaterAccesses),
             sz \in SignaturesOf("zw", {f \in FirstAccesses : ~f.is_array},
                                 {<<>>, <<LaterAccess(FALSE)>>})}

\* The local variables of the kernels called from the region.
RegionKernels == {<<>>, << <<"T">> >>, << <<"zw">>, <<"KW", "T">> >>, << <<"KW", "">> >>}

ParallelRegions ==
    {[in_loop |-> l, kernels |-> ks, accesses |-> acc] :
        l \in BOOLEAN, ks \in RegionKernels, acc \in RegionAccesses}

\* The children of the directive: the Schedule and the default clause of
\* __init__, with or without a reduction clause or the private clause of a
\* call of begin_string before the region was changed.
ParallelChildren ==
    LET made == <<[k |-> "Schedule"], [k |-> "OMPDefaultClause"]>>
    IN {made, Append(made, [k |-> "OMPReductionClause"]),
        Append(made, OMPPrivateClause(<<"ji">>))}

InitPrivate ==
    /\ tree = <<>>
    /\ encl_loops = <<>>
    /\ parallel_private = <<>>
    /\ parent_loop_vars = <<>>
    /\ parent_loops = <<>>
    /\ proxy_loop_vars = EmptyMap
    /\ children = EmptyClauses
    /\ frame = EmptyFrame
    /\ pc = 0
    /\ loop_stack = <<>>
    /\ status = "idle"
    /\ result = None
    /\ runs = 0
    /\ tasks = <<>>
    /\ task_pairs = <<>>
    /\ phase = "idle"
    /\ var1 = 0
    /\ visited = {}
    /\ verdict = ""
    /\ region \in ParallelRegions
    /\ par_children \in ParallelChildren
    /\ par_phase = "idle"
    /\ par_todo = <<>>
    /\ par_result = {}
    /\ par_clause = None
    /\ par_previous = None
    /\ par_runs = 0
    /\ ancestry = <<>>
    /\ dir_node = None
    /\ dir_outcome = ""
    /\ sig_a = None
    /\ sig_b = None
    /\ sig_how = <<>>
    /\ sig_cmp = None

NextPrivate ==
    \/ ParallelBeginString
    \/ KernelLocalVars
    \/ ReferenceAccesses
    \/ SignatureAccesses
    \/ ReturnPrivateClause

SpecPrivate == InitPrivate /\ [][NextPrivate]_vars

(***************************************************************************)
(* The checks on the place of a directive in the tree that                 *)
(* validate_global_constraints makes.  The ancestors of a directive are    *)
(* held as the sequence of their kinds, innermost first, without the       *)
(* Schedules between them.                                                 *)
(***************************************************************************)
MaxDepth == 3

AncestorKinds ==
    {"Loop", "OMPParallelDirective", "OMPParallelDoDirective", "OMPSingleDirective",
     "OMPMasterDirective"}

Paths == UNION {[1..n -> AncestorKinds] : n \in 0..MaxDepth}

\* A variant of the check of a task directive that looks at the parent of
\* the directive only.
parent_constraints_error(path) ==
    IF Len(path) = 0 \/ path[1] \notin SerialKinds
    THEN "GenerationError: OMPTaskDirective must be inside an OMP Serial region"
    ELSE ""

\* OMPTaskDirective.validate_global_constraints: the GenerationError
\* raised, "" if none.
task_constraints_error(path) ==
    IF ancestor(path, SerialKinds) = "None"
    THEN "GenerationError: OMPTaskDirective must be inside an OMP Serial region"
    ELSE ""

\* OMPTaskloopDirective.validate_global_constraints: the GenerationError
\* raised, "" if none.  node_children holds the kinds of the children of
\* the directive, the Schedule first.
taskloop_constraints_error(path, node_children) ==
    IF ancestor(path, SerialKinds) = "None"
    THEN "GenerationError: OMPTaskloopDirective must be inside an OMP Serial region"
    ELSE IF Len(node_children) = 3 /\ node_children[2] = "OMPNogroupClause"
    THEN "GenerationError: OMPTaskloopDirective has two Nogroup clauses"
    ELSE ""

\* validate_global_constraints of an OMPTaskDirective is called.
ValidateTask ==
    /\ dir_node.k = "OMPTaskDirective" /\ dir_outcome = ""
    /\ dir_outcome' = IF task_constraints_error(dir_node.path) # ""
                      THEN task_constraints_error(dir_node.path)
                      ELSE "valid"
    /\ UNCHANGED dir_node
    /\ UNCHANGED <<task_vars, serial_vars, parallel_vars, signature_vars>>

\* validate_global_constraints of an OMPTaskloopDirective is called.
ValidateTaskloop ==
    /\ dir_node.k = "OMPTaskloopDirective" /\ dir_outcome = ""
    /\ dir_outcome' =
           IF taskloop_constraints_error(dir_node.path, dir_node.children) # ""
           THEN taskloop_constraints_error(dir_node.path, dir_node.children)
           ELSE "valid"
    /\ UNCHANGED dir_node
    /\ UNCHANGED <<task_vars, serial_vars, parallel_vars, signature_vars>>

\* The bodies of the directives: Schedules that are not one Loop, and one
\* that is.
DirectiveBodies == MalformedTrees \cup {<<Loop("ii", Lit(1), Ref("n"), Lit(1)), EndLoop>>}

\* The clause children of a taskloop directive, after its Schedule.
TaskloopChildren ==
    {<<"Schedule">>, <<"Schedule", "OMPGrainsizeClause">>, <<"Schedule", "OMPNogroupClause">>,
     <<"Schedule", "OMPNumTasksClause", "OMPNogroupClause">>,
     <<"Schedule", "OMPNogroupClause", "OMPNogroupClause">>}

DirectiveNodes ==
    {[k |-> "OMPTaskDirective", path |-> p, body |-> b] : p \in Paths, b \in DirectiveBodies}
    \cup {[k |-> "OMPTaskloopDirective", path |-> p, body |-> b, children |-> c] :
              p \in Paths, b \in DirectiveBodies, c \in TaskloopChildren}

InitStructure ==
    /\ tree = <<>>
    /\ encl_loops = <<>>
    /\ parallel_private = <<>>
    /\ parent_loop_vars = <<>>
    /\ parent_loops = <<>>
    /\ proxy_loop_vars = EmptyMap
    /\ children = EmptyClauses
    /\ frame = EmptyFrame
    /\ pc = 0
    /\ loop_stack = <<>>
    /\ status = "idle"
    /\ result = None
    /\ runs = 0
    /\ tasks = <<>>
    /\ task_pairs = <<>>
    /\ phase = "idle"
    /\ var1 = 0
    /\ visited = {}
    /\ verdict = ""
    /\ region = NoRegion
    /\ par_children = <<>>
    /\ par_phase = "idle"
    /\ par_todo = <<>>
    /\ par_result = {}
    /\ par_clause = None
    /\ par_previous = None
    /\ par_runs = 0
    /\ ancestry = <<>>
    /\ dir_node \in DirectiveNodes
    /\ dir_outcome = ""
    /\ sig_a = None
    /\ sig_b = None
    /\ sig_how = <<>>
    /\ sig_cmp = None

NextStructure ==
    \/ ValidateTask
    \/ ValidateTaskloop

SpecStructure == InitStructure /\ [][NextStructure]_vars

(***************************************************************************)
(* core/signature.py: the Signature of an access.  A str is held as        *)
(* [k |-> "str", v |-> name], a tuple of names as [k |-> "tuple",          *)
(* v |-> <<names>>] and a Signature object as [k |-> "Signature",          *)
(* _signature |-> <<names>>], so that  hasattr(x, "_signature")  is        *)
(* "_signature" \in DOMAIN x.                                              *)
(***************************************************************************)
MaxLen == 3

Names == {"a", "b"}

\* The position of a name in the order of str.__lt__ (by code point).
str_rank(name) == CASE name = "a" -> 1 [] name = "b" -> 2

StrOf(name) == [k |-> "str", v |-> name]
TupleOf(names) == [k |-> "tuple", v |-> names]
IntOf(n) == [k |-> "int", v |-> n]

\* Signature.__init__: the object constructed, or the InternalError.
Signature(variable, sub_sig) ==
    LET sub_tuple == IF sub_sig # None THEN sub_sig._signature ELSE <<>>
    IN IF variable.k = "str"
       THEN [k |-> "Signature", _signature |-> <<variable.v>> \o sub_tuple]
       ELSE IF variable.k = "tuple"
       THEN [k |-> "Signature", _signature |-> variable.v \o sub_tuple]
       ELSE IF variable.k = "Signature"
       THEN [k |-> "Signature", _signature |-> variable._signature \o sub_tuple]
       ELSE [k |-> "InternalError"]

\* hash() of a tuple of names: a number computed from the names in order.
RECURSIVE tuple_hash(_)
tuple_hash(t) ==
    IF Len(t) = 0 THEN 7
    ELSE (31 * tuple_hash(SubSeq(t, 1, Len(t) - 1)) + str_rank(t[Len(t)])) % 65536

\* Signature.__hash__
Signature_hash(self) == tuple_hash(self._signature)

\* A variant of __eq__ that compares the variable names only.
var_name_eq(self, other) ==
    IF "_signature" \notin DOMAIN other THEN FALSE
    ELSE IF Len(self._signature) = 0 \/ Len(other._signature) = 0
    THEN self._signature = other._signature
    ELSE self._signature[1] = other._signature[1]

\* Signature.__eq__
Signature_eq(self, other) ==
    IF "_signature" \notin DOMAIN other THEN FALSE
    ELSE self._signature = other._signature

\* The comparison  s < t  of two tuples of str: the first position at which
\* they differ decides; if there is none, the shorter tuple is the smaller.
RECURSIVE tuple_lt(_, _)
tuple_lt(s, t) ==
    IF Len(s) = 0 THEN Len(t) > 0
    ELSE IF Len(t) = 0 THEN FALSE
    ELSE IF Head(s) # Head(t) THEN str_rank(Head(s)) < str_rank(Head(t))
    ELSE tuple_lt(Tail(s), Tail(t))

\* Signature.__lt__
Signature_lt(self, other) == tuple_lt(self._signature, other._signature)

\* The tuples of names of the model, and the values that are no Signature.
NameTuples == UNION {[1..n -> Names] : n \in 0..MaxLen}
OtherValues ==
    {None} \cup {StrOf(x) : x \in Names} \cup {TupleOf(t) : t \in NameTuples}
        \cup {IntOf(0)}

\* The arguments a Signature is constructed from: a str, a tuple, or a
\* Signature constructed before, and no sub_sig or a Signature.
Constructed == {sig_a, sig_b} \ {None}
VariableArguments ==
    {StrOf(x) : x \in Names} \cup {TupleOf(t) : t \in NameTuples} \cup Constructed
        \cup {IntOf(0)}
SubSigArguments ==
    {None} \cup {Signature(TupleOf(t), None) : t \in NameTuples} \cup Constructed

\* How a Signature was constructed: the kind of variable, and whether a
\* sub_sig was given.
HowOf(variable, sub_sig) == [variable |-> variable.k, sub_sig |-> sub_sig # None]

\* Signature(variable, sub_sig) is called: the first and the second object of
\* the comparison.  A call that raises constructs nothing.
NewSignature ==
    /\ sig_b = None
    /\ \E variable \in VariableArguments, sub_sig \in SubSigArguments :
          LET new == Signature(variable, sub_sig)
          IN /\ new.k = "Signature"
             /\ Len(new._signature) <= MaxLen
             /\ IF sig_a = None
                THEN sig_a' = new /\ sig_b' = sig_b
                ELSE sig_a' = sig_a /\ sig_b' = new
             /\ sig_how' = Append(sig_how, HowOf(variable, sub_sig))
    /\ UNCHANGED sig_cmp
    /\ UNCHANGED <<task_vars, serial_vars, parallel_vars, structure_vars>>

\* The two objects are compared and hashed, and the first is compared with
\* the values that are no Signature.
CompareSignatures ==
    /\ sig_b # None /\ sig_cmp = None
    /\ sig_cmp' = [k |-> "Comparison",
                   eq |-> Signature_eq(sig_a, sig_b),
                   lt |-> Signature_lt(sig_a, sig_b),
                   hash_a |-> Signature_hash(sig_a),
                   hash_b |-> Signature_hash(sig_b),
                   eq_others |-> {v \in OtherValues : Signature_eq(sig_a, v)}]
    /\ UNCHANGED <<sig_a, sig_b, sig_how>>
    /\ UNCHANGED <<task_vars, serial_vars, parallel_vars, structure_vars>>

InitSignature ==
    /\ tree = <<>>
    /\ encl_loops = <<>>
    /\ parallel_private = <<>>
    /\ parent_loop_vars = <<>>
    /\ parent_loops = <<>>
    /\ proxy_loop_vars = EmptyMap
    /\ children = EmptyClauses
    /\ frame = EmptyFrame
    /\ pc = 0
    /\ loop_stack = <<>>
    /\ status = "idle"
    /\ result = None
    /\ runs = 0
    /\ tasks = <<>>
    /\ task_pairs = <<>>
    /\ phase = "idle"
    /\ var1 = 0
    /\ visited = {}
    /\ verdict = ""
    /\ region = NoRegion
    /\ par_children = <<>>
    /\ par_phase = "idle"
    /\ par_todo = <<>>
    /\ par_result = {}
    /\ par_clause = None
    /\ par_previous = None
    /\ par_runs = 0
    /\ ancestry = <<>>
    /\ dir_node = None
    /\ dir_outcome = ""
    /\ sig_a = None
    /\ sig_b = None
    /\ sig_how = <<>>
    /\ sig_cmp = None

NextSignature ==
    \/ NewSignature
    \/ CompareSignatures

SpecSignature == InitSignature /\ [][NextSignature]_vars

\* The task directives of a serial directive whose place in the tree
\* varies: none, one or two, in a loop over i, with the clause children they
\* were constructed with or the ones begin_string has left.
PlacedDirectives ==
    {[loop |-> Loop("i", Lit(1), Ref("n"), Lit(1)), children |-> c] :
        c \in {EmptyClauses}
            \cup {task_children(st, Loop("i", Lit(1), Ref("n"), Lit(1))) :
                     st \in {Assignment(ArrRef("a", <<Ref("ii")>>), Lit(0)),
                             IfBlock(BinOp("GT", ArrRef("a", <<Ref("ii")>>), Lit(0))),
                             Assignment(ArrRef("b", <<Ref("ii")>>),
                                        ArrRef("a", <<Ref("ii")>>))}}}
PlacedTasks ==
    {<<>>} \cup {<<t>> : t \in PlacedDirectives}
        \cup {<<t, u>> : t \in PlacedDirectives, u \in PlacedDirectives}

\* validate_global_constraints of a serial directive placed anywhere.
InitSerial ==
    /\ tree = <<>>
    /\ encl_loops = <<>>
    /\ parallel_private = <<Ref("i"), Ref("ii"), Ref("j")>>
    /\ parent_loop_vars = <<>>
    /\ parent_loops = <<>>
    /\ proxy_loop_vars = EmptyMap
    /\ children = EmptyClauses
    /\ frame = EmptyFrame
    /\ pc = 0
    /\ loop_stack = <<>>
    /\ status = "idle"
    /\ result = None
    /\ runs = 0
    /\ tasks \in PlacedTasks
    /\ task_pairs = <<>>
    /\ phase = "idle"
    /\ var1 = 0
    /\ visited = {}
    /\ verdict = ""
    /\ region = NoRegion
    /\ par_children = <<>>
    /\ par_phase = "idle"
    /\ par_todo = <<>>
    /\ par_result = {}
    /\ par_clause = None
    /\ par_previous = None
    /\ par_runs = 0
    /\ ancestry \in Paths
    /\ dir_node = None
    /\ dir_outcome = ""
    /\ sig_a = None
    /\ sig_b = None
    /\ sig_how = <<>>
    /\ sig_cmp = None

SpecSerial == InitSerial /\ [][NextValidate]_vars

(***************************************************************************)
(* Properties of the per-dimension index resolution.                       *)
(***************************************************************************)
\* An array access of the current statement has been classified.
AccessClassified == frame.access # None /\ frame.err = ""

\* The index is Reference +/- Literal or Literal +/- Reference.
IsRefPlusMinusLit(idx) ==
    /\ idx.k = "BinaryOperation"
    /\ idx.operator \in {"ADD", "SUB"}
    /\ \/ IsPlainReference(idx.children[1]) /\ IsLiteral(idx.children[2])
       \/ IsLiteral(idx.children[1]) /\ IsPlainReference(idx.children[2])
\* The position (1 or 2) of the Reference in such an index, and its parts.
RefPos(idx) == IF IsPlainReference(idx.children[1]) THEN 1 ELSE 2
RefOf(idx) == idx.children[RefPos(idx)]
OffsetOf(idx) == idx.children[3 - RefPos(idx)].value

\* The reference is a proxy for the variable of an enclosing loop.
IsProxyRef(r) == r.symbol \in DOMAIN proxy_loop_vars
\* The reference is a direct (non-proxy) access to the variable of an
\* enclosing loop: private in the region and not written in the task.
IsDirectParentRef(r) ==
    /\ r.symbol \notin DOMAIN proxy_loop_vars
    /\ InList(r, parallel_private)
    /\ ~InList(r, frame.private_list)
    /\ InList(r.symbol, parent_loop_vars)
\* The enclosing loop that governs the reference: its variable and step.
GoverningVar(r) ==
    IF IsProxyRef(r) THEN proxy_loop_vars[r.symbol].parent_var ELSE r.symbol
GoverningStep(r) ==
    IF IsProxyRef(r) THEN proxy_loop_vars[r.symbol].parent_loop.step_expr.value
    ELSE parent_loops[IndexOf(parent_loop_vars, r.symbol)].step_expr.value

\* The element of index_list that holds the candidates of dimension d of the
\* access: a written access appends nothing for an index that is neither a
\* Literal, a Reference nor a BinaryOperation.
Skipped(idx) == ~IsLiteral(idx) /\ ~IsReference(idx) /\ ~IsBinaryOperation(idx)
CandidatePos(d) ==
    d - (IF frame.write
         THEN Cardinality({e \in 1..(d-1) : Skipped(frame.access.indices[e])})
         ELSE 0)
Candidates(d) ==
    LET c == frame.index_list[CandidatePos(d)]
    IN IF c.k = "list" THEN c.items ELSE <<c>>

\* The dimensions of the access whose index is Reference +/- Literal with a
\* Reference governed by an enclosing loop.
GovernedDims ==
    {d \in 1..Len(frame.access.indices) :
        /\ IsRefPlusMinusLit(frame.access.indices[d])
        /\ \/ IsProxyRef(RefOf(frame.access.indices[d]))
           \/ IsDirectParentRef(RefOf(frame.access.indices[d]))}

\* The value of a step operand: a Literal, or a product of two Literals.
StepValue(e) ==
    IF e.k = "Literal" THEN e.value ELSE e.children[1].value * e.children[2].value

\* cand is  var OP amount  with the operands in the order of idx.
IsOffsetOf(cand, idx, var, amount) ==
    /\ cand.k = "BinaryOperation"
    /\ cand.operator = idx.operator
    /\ cand.children[RefPos(idx)] = Ref(var)
    /\ cand.children[3 - RefPos(idx)].k \in {"Literal", "BinaryOperation"}
    /\ StepValue(cand.children[3 - RefPos(idx)]) = amount

\* C1: for an index Reference +/- Literal governed by an enclosing loop of
\* literal step s, with offset o, the primary candidate is the governing
\* loop variable +/- (ceil(o/s) * s), with the operator of the index, for
\* every o >= 0 and s >= 1.
C1_PrimaryIsDivisorTimesStep ==
    AccessClassified =>
        \A d \in GovernedDims :
            LET idx == frame.access.indices[d]
                s == GoverningStep(RefOf(idx))
                o == OffsetOf(idx)
            IN IsOffsetOf(Candidates(d)[1], idx, GoverningVar(RefOf(idx)),
                          Ceil(o, s) * s)

\* The same for offsets o >= 1 only: what the code does.
C1_PrimaryForPositiveOffsets ==
    AccessClassified =>
        \A d \in GovernedDims :
            LET idx == frame.access.indices[d]
                s == GoverningStep(RefOf(idx))
                o == OffsetOf(idx)
            IN o >= 1 => IsOffsetOf(Candidates(d)[1], idx, GoverningVar(RefOf(idx)),
                                    Ceil(o, s) * s)

\* C2 as stated: a secondary candidate is emitted iff o mod s # 0; it is
\* Reference +/- ((divisor-1)*s) when divisor > 2 and Reference +/- s when
\* divisor is 1 or 2; with o mod s = 0 there is exactly one candidate.
C2_SecondaryAsStated ==
    AccessClassified =>
        \A d \in GovernedDims :
            LET idx == frame.access.indices[d]
                r == RefOf(idx)
                s == GoverningStep(r)
                o == OffsetOf(idx)
                divisor == Ceil(o, s)
                cands == Candidates(d)
            IN /\ (Len(cands) = 2) <=> (o % s # 0)
               /\ Len(cands) \in {1, 2}
               /\ Len(cands) = 2 =>
                     IsOffsetOf(cands[2], idx, GoverningVar(r),
                                IF divisor > 2 THEN (divisor - 1) * s ELSE s)

\* C2 as amended: a secondary candidate is emitted iff o mod s # 0; it is
\* Reference +/- ((divisor-1)*s) when divisor > 2, Reference +/- s when
\* divisor = 2 and the bare Reference to the governing loop variable when
\* divisor = 1; with o mod s = 0 there is exactly one candidate.
C2_SecondaryCandidate ==
    AccessClassified =>
        \A d \in GovernedDims :
            LET idx == frame.access.indices[d]
                r == RefOf(idx)
                s == GoverningStep(r)
                o == OffsetOf(idx)
                divisor == Ceil(o, s)
                cands == Candidates(d)
            IN /\ (Len(cands) = 2) <=> (o % s # 0)
               /\ Len(cands) \in {1, 2}
               /\ Len(cands) = 2 =>
                     IF divisor = 1 THEN cands[2] = Ref(GoverningVar(r))
                     ELSE IsOffsetOf(cands[2], idx, GoverningVar(r),
                                     IF divisor > 2 THEN (divisor - 1) * s ELSE s)

\* Witness of C2: an index governed by a loop of step s with 0 < o < s
\* (divisor 1, o mod s # 0) has been resolved to two candidates.
C2_Witness ==
    /\ AccessClassified
    /\ \E d \in GovernedDims :
          LET idx == frame.access.indices[d]
              s == GoverningStep(RefOf(idx))
          IN /\ OffsetOf(idx) > 0 /\ OffsetOf(idx) < s
             /\ Len(Candidates(d)) = 2

\* The index is none of a Literal, a plain Reference and Reference +/- Literal.
UnsupportedIndex(idx) ==
    ~IsLiteral(idx) /\ ~IsPlainReference(idx) /\ ~IsRefPlusMinusLit(idx)

\* The candidate sets of the access, one per element of index_list.
CandidateLists == new_index_list(frame.index_list)
\* The number of combinations of one candidate per list.
RECURSIVE ProductOfLengths(_)
ProductOfLengths(lists) ==
    IF Len(lists) = 0 THEN 1 ELSE Len(Head(lists)) * ProductOfLengths(Tail(lists))
\* The dependency list the access is added to.
DependencyList == IF frame.write THEN frame.out_list ELSE frame.in_list

\* C3: for every array access (read or write) classified in a task, the
\* dependency entries are exactly the Cartesian product of the candidate sets
\* of the dimensions: as many combinations as the product of the candidate
\* counts of all dimensions, each with one index per dimension of the access
\* in dimension order, each an entry of the dependency list, and the bare
\* array symbol is in shared.
C3_EntriesAreCartesianProduct ==
    AccessClassified =>
        LET n == Len(frame.access.indices)
        IN /\ Len(frame.index_list) = n
           /\ Len(frame.combinations) = ProductOfLengths(CandidateLists)
           /\ \A c \in 1..Len(frame.combinations) :
                 /\ Len(frame.combinations[c]) = n
                 /\ \A d \in 1..n :
                       d <= Len(frame.index_list) =>
                           InList(frame.combinations[c][d], CandidateLists[d])
                 /\ InList(ArrRef(frame.access.symbol, frame.combinations[c]),
                           DependencyList)
           /\ \A c1, c2 \in 1..Len(frame.combinations) :
                 c1 # c2 => frame.combinations[c1] # frame.combinations[c2]
           /\ InList(Ref(frame.access.symbol), frame.shared_list)

\* C3 for the accesses that are read: what the code does.
C3_ReadEntriesAreCartesianProduct ==
    (AccessClassified /\ ~frame.write) => C3_EntriesAreCartesianProduct

\* C4: whenever an array access of a task, read or written, has an index
\* that is not a Literal, a plain Reference or Reference +/- Literal, the
\* synthesis ends in an error, and no dependency entry of the access is
\* emitted with the index left out.
C4_UnsupportedIndexRaises ==
    (/\ frame.access # None
     /\ \E d \in 1..Len(frame.access.indices) :
           UnsupportedIndex(frame.access.indices[d]))
    => /\ frame.err # ""
       /\ status = "raised"
       /\ \A e \in 1..Len(DependencyList) :
             DependencyList[e].symbol = frame.access.symbol
                 => Len(DependencyList[e].indices) = Len(frame.access.indices)

\* C4 for the accesses that are read: what the code does.
C4_UnsupportedReadIndexRaises ==
    (frame.access # None /\ ~frame.write) => C4_UnsupportedIndexRaises

\* C5: while a call of begin_string has not returned from _compute_clauses,
\* and when _compute_clauses raises, whatever the statement that raises, no
\* clause set is returned and the five clause children of the directive
\* stay what they were before the call.
C5_RaiseLeavesChildren ==
    [][status' # "returned" => (result' = None /\ children' = children)]_vars

\* Witness of C5: the call has raised after clauses had been collected from
\* the statements before the offending one, and the directive has the
\* children it was constructed with.
C5_Witness ==
    /\ status = "raised"
    /\ pc > 2
    /\ clauses_of(frame) # EmptyClauses
    /\ frame.in_list # <<>> \/ frame.out_list # <<>>
    /\ children = EmptyClauses
    /\ result = None

(***************************************************************************)
(* Properties of the validation of the tasks of a serial region.           *)
(***************************************************************************)
\* The entries of the depend clauses of task t, in and out.
Entries(t) ==
    {tasks[t].children.in[n] : n \in 1..Len(tasks[t].children.in)}
    \cup {tasks[t].children.out[n] : n \in 1..Len(tasks[t].children.out)}
\* The entries that are accesses to an array.
ArrayEntries(t) == {e \in Entries(t) : IsArrayReference(e)}
\* Two entries on the same array, of two different tasks.
SameArray(e1, e2) == e1.symbol = e2.symbol /\ Len(e1.indices) = Len(e2.indices)
TaskNumbers == 1..Len(tasks)
\* The loops the two tasks are in have literal and equal starts and steps.
SameLiteralLoops(t1, t2) ==
    /\ IsLiteral(tasks[t1].loop.start_expr) /\ IsLiteral(tasks[t2].loop.start_expr)
    /\ tasks[t1].loop.start_expr = tasks[t2].loop.start_expr
    /\ IsLiteral(tasks[t1].loop.step_expr) /\ IsLiteral(tasks[t2].loop.step_expr)
    /\ tasks[t1].loop.step_expr = tasks[t2].loop.step_expr

\* C6: a region in which one task has the entry a(i) and another task the
\* entry a(i+1), both tasks in the same loop over i of step 1, is not
\* accepted by the validation, whichever of the two tasks comes first.
C6_ShiftedAccessRejected ==
    (/\ verdict # ""
     /\ \E t1, t2 \in TaskNumbers :
           /\ t1 # t2
           /\ tasks[t1].loop = tasks[t2].loop
           /\ tasks[t1].loop.step_expr = Lit(1)
           /\ ArrRef("a", <<Ref("i")>>) \in Entries(t1)
           /\ ArrRef("a", <<BinOp("ADD", Ref("i"), Lit(1))>>) \in Entries(t2))
    => verdict # "ok"

\* C7: the validation of a region of two tasks that both have the entry
\* a(i), in the same loop over i of literal start and step, ends without
\* any error.
C7_SameAccessAccepted ==
    (/\ verdict # ""
     /\ Len(tasks) = 2
     /\ tasks[1].loop = tasks[2].loop
     /\ IsLiteral(tasks[1].loop.start_expr) /\ IsLiteral(tasks[1].loop.step_expr)
     /\ ArrRef("a", <<Ref("i")>>) \in Entries(1)
     /\ ArrRef("a", <<Ref("i")>>) \in Entries(2))
    => verdict = "ok"

\* C8: a region in which two tasks have entries on the same array whose
\* indices of some dimension are two different literals, or a literal and
\* an index that is not a literal, is not accepted, whichever task holds
\* the literal.
C8_LiteralIndicesRejected ==
    (/\ verdict # ""
     /\ \E t1, t2 \in TaskNumbers :
           /\ t1 # t2
           /\ \E e1 \in ArrayEntries(t1), e2 \in ArrayEntries(t2) :
                 /\ SameArray(e1, e2)
                 /\ \E d \in 1..Len(e1.indices) :
                       /\ IsLiteral(e1.indices[d])
                       /\ e1.indices[d] # e2.indices[d])
    => verdict # "ok"

\* C9: a region in which two tasks have entries on the same array whose
\* indices of some dimension are both symbolic, the variable of both last
\* written by the loops the tasks are in, is accepted only if the starts of
\* the two loops are literals and equal and the steps of the two loops are
\* literals and equal.
C9_LoopsMustAgree ==
    verdict = "ok" =>
        \A t1, t2 \in TaskNumbers :
            \A e1 \in ArrayEntries(t1), e2 \in ArrayEntries(t2) :
                (/\ t1 # t2
                 /\ SameArray(e1, e2)
                 /\ \E d \in 1..Len(e1.indices) :
                       ~IsLiteral(e1.indices[d]) /\ ~IsLiteral(e2.indices[d]))
                => SameLiteralLoops(t1, t2)

\* C10: when the validation has ended without error, for every pair of
\* tasks of the region every entry of the first task, in or out, has been
\* examined against every entry of the second task, in or out, on the same
\* symbol.
C10_EveryEntryExamined ==
    verdict = "ok" =>
        \A t1, t2 \in TaskNumbers :
            t1 < t2 =>
                \A e1 \in Entries(t1), e2 \in Entries(t2) :
                    e1.symbol = e2.symbol => <<<<t1, t2>>, e1, e2>> \in visited

(***************************************************************************)
(* Properties of the private clause of a parallel region.                  *)
(***************************************************************************)
\* The names of the References of a private clause.
ClauseNames(clause) == {clause.children[n].symbol : n \in 1..Len(clause.children)}
\* The lower-cased names of the local variables of the kernels of the region.
KernelNames ==
    UNION {{lower(region.kernels[c][v]) : v \in 1..Len(region.kernels[c])} :
           c \in 1..Len(region.kernels)} \ {""}
\* The upward walk from an access that stops at the first loop or at the
\* boundary of the parallel region ends at a loop.
WalkEndsAtLoop(access) ==
    ancestor(ancestors(access, region.in_loop), {"Loop", "OMPParallelDirective"}) = "Loop"
\* No access of the signature has indices.
IsScalarSignature(sig) ==
    \A a \in 1..Len(sig.accesses) : ~sig.accesses[a].is_array
\* The signatures of the region.
RegionSignatures == {region.accesses[n] : n \in 1..Len(region.accesses)}

\* C11: a scalar signature with two or more accesses (that is not a local
\* variable of a kernel) is in the private clause exactly when its first
\* access is a write and the upward walk from that write, which stops at
\* the first loop or at the boundary of the parallel region, ends at a loop;
\* also when the region itself is in a loop.
C11_PrivateIffFirstWriteInLoop ==
    par_phase = "returned" =>
        \A sig \in RegionSignatures :
            (/\ IsScalarSignature(sig)
             /\ Len(sig.accesses) >= 2
             /\ lower(sig.signature) \notin KernelNames)
            => (lower(sig.signature) \in ClauseNames(par_clause)
                <=> (/\ sig.accesses[1].access_type = "WRITE"
                     /\ WalkEndsAtLoop(sig.accesses[1])))

\* C11 for a region that is not in a loop: what the code does.
C11_PrivateIffFirstWriteInLoopOfTopRegion ==
    (par_phase = "returned" /\ ~region.in_loop) => C11_PrivateIffFirstWriteInLoop

\* C12: a signature that is accessed as an array, or that has exactly one
\* access, is not in the private clause unless it is a local variable of a
\* kernel of the region; a local variable with an empty name makes the call
\* raise.
C12_ArraysAndSingleAccessesNotPrivate ==
    /\ par_phase = "returned" =>
          \A sig \in RegionSignatures :
              (/\ ~IsScalarSignature(sig) \/ Len(sig.accesses) = 1
               /\ lower(sig.signature) \notin KernelNames)
              => lower(sig.signature) \notin ClauseNames(par_clause)
    /\ par_phase \in {"signatures", "returned"} =>
          \A c \in 1..Len(region.kernels) :
              \A v \in 1..Len(region.kernels[c]) : region.kernels[c][v] # ""

\* C12 for the signatures whose first access is an array access: what the
\* code does.
C12_FirstAccessArrayNotPrivate ==
    par_phase = "returned" =>
        \A sig \in RegionSignatures :
            (/\ sig.accesses[1].is_array \/ Len(sig.accesses) = 1
             /\ lower(sig.signature) \notin KernelNames)
            => lower(sig.signature) \notin ClauseNames(par_clause)

\* The position of a lower-case name in the order of the names.
NameRank(name) == CHOOSE n \in 1..Len(NamesInOrder) : NamesInOrder[n] = name

IsOneLoop(body) ==
    /\ Len(body) >= 2
    /\ body[1].k = "Loop"
    /\ body[Len(body)].k = "EndLoop"
    /\ \A n \in 2..Len(body) : Depth(body, n) >= 1

\* C14: the call raises, having classified no statement, whenever the
\* Schedule of the task is not exactly one statement or that statement is
\* not a Loop; it goes on to the classification when the Schedule is
\* exactly one Loop.
C14_ScheduleMustBeOneLoop ==
    status # "idle" =>
        IF IsOneLoop(tree)
        THEN pc = 1 => status = "running"
        ELSE /\ status = "raised"
             /\ pc = 1
             /\ clauses_of(frame) = EmptyClauses
             /\ result = None

\* Witness of C14: the call has raised on a Schedule of two statements of
\* which the first is a Loop.
C14_Witness ==
    /\ status = "raised"
    /\ Len(tree) = 3 /\ tree[1].k = "Loop"
    /\ ~IsOneLoop(tree)

\* The step of the walk that has just evaluated the Assignment tree[pc].
AssignmentStep == Running("Assignment") /\ pc' = pc + 1

\* The lhs of the Assignment under evaluation is a scalar or a structure
\* access, and the Reference to its (base) symbol.
WritesBaseRef == ~IsArrayReference(tree[pc].lhs)
WrittenSymbol == Ref(tree[pc].lhs.symbol)

\* C15: a write to a scalar or structure reference (reduced to its base
\* symbol) of a symbol that is private in the parallel region leaves the
\* symbol in the private set of the task and adds it to neither shared nor
\* out; a write of any other symbol leaves it in both shared and out.
C15_WriteClassification ==
    [][(AssignmentStep /\ WritesBaseRef) =>
          IF InList(WrittenSymbol, parallel_private)
          THEN /\ InList(WrittenSymbol, frame'.private_list)
               /\ InList(WrittenSymbol, frame'.shared_list)
                      <=> InList(WrittenSymbol, frame.shared_list)
               /\ InList(WrittenSymbol, frame'.out_list)
                      <=> InList(WrittenSymbol, frame.out_list)
          ELSE /\ InList(WrittenSymbol, frame'.shared_list)
               /\ InList(WrittenSymbol, frame'.out_list)]_vars

\* A member of the structure s, private in the region, has been written:
\* s is private in the task and neither shared nor out.
C15_Witness ==
    /\ status = "running" /\ pc > 1
    /\ tree[pc - 1].k = "Assignment"
    /\ tree[pc - 1].lhs.k = "StructureReference"
    /\ InList(Ref("s"), parallel_private)
    /\ InList(Ref("s"), frame.private_list)
    /\ ~InList(Ref("s"), frame.shared_list)
    /\ ~InList(Ref("s"), frame.out_list)

\* The references read by the statement under evaluation, in the order of
\* the walk: the rhs of an Assignment, the condition of an IfBlock.
ReadRefs ==
    IF tree[pc].k = "Assignment" THEN WalkReferences(tree[pc].rhs)
    ELSE WalkReferences(tree[pc].condition)

\* The step of the walk that has just read all of ReadRefs, after the write
\* of a scalar or structure lhs if the statement is an Assignment.
ReadStep ==
    /\ \/ AssignmentStep /\ WritesBaseRef
       \/ Running("IfBlock") /\ pc' = pc + 1
    /\ frame'.err = ""

\* ReadRefs[n] is a scalar or structure reference, and no reference read
\* before it in the same statement mentions its symbol.
IsFirstBaseRead(n) ==
    /\ ~IsArrayReference(ReadRefs[n])
    /\ \A m \in 1..(n - 1) :
          \A x \in 1..Len(WalkReferences(ReadRefs[m])) :
             WalkReferences(ReadRefs[m])[x].symbol # ReadRefs[n].symbol

\* The membership of sym in the private and firstprivate sets of the task
\* at the moment of such a read: the sets before the statement, and the
\* write of the lhs of the statement.
PrivateAtRead(sym) ==
    \/ InList(sym, frame.private_list)
    \/ /\ tree[pc].k = "Assignment"
       /\ sym = WrittenSymbol
       /\ InList(sym, parallel_private)
FirstprivateAtRead(sym) == InList(sym, frame.firstprivate_list)

\* C16: a read of a scalar or structure reference whose (base) symbol is
\* private in the parallel region adds the symbol to the firstprivate set
\* of the task if and only if, at the moment of the read, the symbol is in
\* neither the private nor the firstprivate set of the task.
C16_ReadMakesFirstprivate ==
    [][ReadStep =>
          \A n \in 1..Len(ReadRefs) :
             LET sym == Ref(ReadRefs[n].symbol)
             IN (IsFirstBaseRead(n) /\ InList(sym, parallel_private)) =>
                   ((~FirstprivateAtRead(sym) /\ InList(sym, frame'.firstprivate_list))
                       <=> (~PrivateAtRead(sym) /\ ~FirstprivateAtRead(sym)))]_vars

\* k, private in the region, has been written and then read by k = k: it
\* is private in the task and has not been made firstprivate.
C16_Witness ==
    /\ status = "running" /\ pc > 1
    /\ tree[pc - 1] = Assignment(Ref("k"), Ref("k"))
    /\ InList(Ref("k"), parallel_private)
    /\ InList(Ref("k"), frame.private_list)
    /\ ~InList(Ref("k"), frame.firstprivate_list)

\* The step of the walk that has just processed the header of the Loop
\* tree[pc], and the Reference to its induction symbol.
LoopStep == Running("Loop") /\ pc' = pc + 1
LoopVariable == Ref(tree[pc].variable)

\* C17 as stated: a loop whose induction symbol is shared in the parallel
\* region makes the synthesis raise; the induction symbol of any other
\* loop is in the private set of the task once the loop is evaluated,
\* whatever was classified before the loop.
C17_LoopVariablePrivate ==
    [][LoopStep =>
          IF ~InList(LoopVariable, parallel_private)
          THEN status' = "raised"
          ELSE InList(LoopVariable, frame'.private_list)]_vars

\* C17: a loop whose induction symbol is shared in the parallel region
\* makes the synthesis raise; the induction symbol of any other loop is in
\* the private set of the task once the loop is evaluated, unless it was
\* in the firstprivate set of the task when the loop was reached: then the
\* loop leaves the private set as it was.
C17_LoopVariablePrivateUnlessFirstprivate ==
    [][LoopStep =>
          IF ~InList(LoopVariable, parallel_private)
          THEN status' = "raised"
          ELSE IF InList(LoopVariable, frame.firstprivate_list)
          THEN frame'.private_list = frame.private_list
          ELSE InList(LoopVariable, frame'.private_list)]_vars

\* The loop over j has been entered after j was read by k = j: j is
\* firstprivate and not private in the task.
C17_Witness ==
    /\ status = "running" /\ pc > 1
    /\ tree[pc - 1].k = "Loop" /\ tree[pc - 1].variable = "j"
    /\ InList(Ref("j"), frame.firstprivate_list)
    /\ ~InList(Ref("j"), frame.private_list)

\* The references of the start, stop and step expressions of the Loop
\* under evaluation, in the order in which _evaluate_loop goes through them.
BoundRefs ==
    WalkReferences(tree[pc].start_expr) \o WalkReferences(tree[pc].stop_expr)
        \o WalkReferences(tree[pc].step_expr)

\* ref is the parent loop variable that the Loop under evaluation has just
\* been bound to as a proxy.
IsBoundParent(ref) ==
    /\ tree[pc].variable \in DOMAIN proxy_loop_vars'
    /\ proxy_loop_vars'[tree[pc].variable].loop = tree[pc]
    /\ ref = Ref(proxy_loop_vars'[tree[pc].variable].parent_var)

IsPrivateConstant(r) ==
    /\ InList(r, parallel_private)
    /\ InList(r, frame.private_list)
    /\ r.symbol \notin child_loop_vars(Self)
    /\ r.symbol \notin DOMAIN proxy_loop_vars
    /\ ~InList(r.symbol, parent_loop_vars)

\* The dimensions of the access whose index is a plain reference to a
\* private constant, and those whose index is such a reference plus or
\* minus a literal.
PrivateConstantDims ==
    {d \in 1..Len(frame.access.indices) :
        /\ IsPlainReference(frame.access.indices[d])
        /\ IsPrivateConstant(frame.access.indices[d])}
PrivateConstantOffsetDims ==
    {d \in 1..Len(frame.access.indices) :
        /\ IsRefPlusMinusLit(frame.access.indices[d])
        /\ IsPrivateConstant(RefOf(frame.access.indices[d]))}

\* The single full-range candidate of dimension d of the access.
IsFullRange(d) == Candidates(d) = <<FullRange(frame.access.symbol, d)>>

\* C19: an index that is a reference to a private constant, bare or plus
\* or minus a literal, resolves to the single full-range candidate of its
\* dimension.
C19_PrivateConstantFullRange ==
    AccessClassified =>
        \A d \in PrivateConstantDims \cup PrivateConstantOffsetDims : IsFullRange(d)

\* An index that is a reference to a private constant plus or minus a
\* literal resolves to the single full-range candidate of its dimension.
C19_PrivateConstantOffsetFullRange ==
    AccessClassified => \A d \in PrivateConstantOffsetDims : IsFullRange(d)

\* An index that is a bare reference to a private constant resolves to the
\* reference itself.
C19_PrivateConstantCopied ==
    AccessClassified =>
        \A d \in PrivateConstantDims : Candidates(d) = <<frame.access.indices[d]>>

\* An access indexed by a private constant has been classified, bare and
\* with an offset.
C19_BareWitness == AccessClassified /\ PrivateConstantDims # {}
C19_OffsetWitness == AccessClassified /\ PrivateConstantOffsetDims # {}

\* The dimensions of the access whose index is a plain reference to a
\* proxy loop variable, and those whose index is a plain reference to the
\* variable of a loop of the task that is not a proxy.
ProxyDims ==
    {d \in 1..Len(frame.access.indices) :
        /\ IsPlainReference(frame.access.indices[d])
        /\ IsProxyRef(frame.access.indices[d])}
ChildLoopDims ==
    {d \in 1..Len(frame.access.indices) :
        /\ IsPlainReference(frame.access.indices[d])
        /\ frame.access.indices[d].symbol \in child_loop_vars(Self)}

\* C20: an index that is a plain reference to a proxy loop variable
\* resolves to one candidate, the reference to the variable of the parent
\* loop; an index that is a plain reference to the variable of a child
\* loop that is not a proxy resolves to one full-range candidate; no index
\* is in both cases.
C20_ProxyAndChildLoopIndices ==
    AccessClassified =>
        /\ \A d \in ProxyDims :
              Candidates(d) =
                  <<Ref(proxy_loop_vars[frame.access.indices[d].symbol].parent_var)>>
        /\ \A d \in ChildLoopDims : IsFullRange(d)
        /\ ProxyDims \cap ChildLoopDims = {}

\* An access with one index of each kind has been classified: ii is a
\* proxy for the enclosing loop over i, j the variable of a nested loop.
C20_Witness ==
    /\ AccessClassified
    /\ ProxyDims # {} /\ ChildLoopDims # {}
    /\ \E d \in ProxyDims : Candidates(d) = <<Ref("i")>>

(***************************************************************************)
(* Properties of the state a task directive keeps between the calls.       *)
(***************************************************************************)
\* A synthesis call has ended: it returned the clauses or it raised.
CallEnded == status \in {"returned", "raised"}

\* The variables of the loops of the task the walk is inside of.
RECURSIVE OpenLoops(_, _)
OpenLoops(n, open) ==
    IF n >= pc \/ n > Len(tree) THEN open
    ELSE IF tree[n].k = "Loop" THEN OpenLoops(n + 1, Append(open, tree[n].variable))
    ELSE IF tree[n].k = "EndLoop" THEN OpenLoops(n + 1, SubSeq(open, 1, Len(open) - 1))
    ELSE OpenLoops(n + 1, open)

\* The step of the walk that has just entered the Loop tree[pc] registers
\* a binding for its variable exactly when the start expression is a
\* single reference to the variable of a loop enclosing the task.
C21_RegisteredForChunkedLoops ==
    [][(LoopStep /\ tree[pc].variable \notin DOMAIN proxy_loop_vars) =>
          LET refs == WalkReferences(tree[pc].start_expr)
          IN tree[pc].variable \in DOMAIN proxy_loop_vars'
                <=> (Len(refs) = 1 /\ InList(refs[1].symbol, parent_loop_vars))]_vars

\* C21: a binding exists only while the walk is inside the subtree of its
\* loop, and the binding map is empty whenever a call has ended, whether
\* it returned or raised.
C21_BindingsScopedToCall ==
    /\ status = "running" =>
           \A v \in DOMAIN proxy_loop_vars : InList(v, OpenLoops(1, <<>>))
    /\ CallEnded => proxy_loop_vars = EmptyMap

\* The binding map is empty whenever a call has returned the clauses.
C21_NoBindingAfterReturn == status = "returned" => proxy_loop_vars = EmptyMap

\* A call has raised and has left a binding behind.
C21_LeakWitness == status = "raised" /\ proxy_loop_vars # EmptyMap

\* The step in which _compute_clauses returns the clauses to begin_string.
ReturnStep == status = "running" /\ status' = "returned"

NoDuplicates(lst) == \A m, n \in 1..Len(lst) : lst[m] = lst[n] => m = n

\* None of the five clause sets has two equal elements.
NoDuplicateClauses(c) ==
    /\ NoDuplicates(c.private) /\ NoDuplicates(c.firstprivate)
    /\ NoDuplicates(c.shared) /\ NoDuplicates(c.in) /\ NoDuplicates(c.out)

\* C23: at every point of a synthesis call and in its result, none of the
\* five clause sets contains two structurally equal reference expressions.
C23_ClauseSetsHaveNoDuplicates ==
    /\ NoDuplicateClauses(clauses_of(frame))
    /\ result # None => NoDuplicateClauses(result)
    /\ NoDuplicateClauses(children)

\* A call has returned after it met references that were classified
\* already: the array a is read in the condition of an IfBlock and in the
\* statement in it, and k is read twice.
C23_Witness ==
    /\ status = "returned"
    /\ \E n \in 1..Len(tree) :
          /\ tree[n].k = "IfBlock"
          /\ tree[n + 1] = Assignment(Ref("k"), ArrRef("a", <<Ref("ii")>>))
    /\ Len(result.in) = 1 /\ Len(result.shared) = 1

(***************************************************************************)
(* Properties of the checks on the place of a directive in the tree.       *)
(***************************************************************************)
\* The directive has a Single or Master directive among its ancestors.
HasSerialAncestor(path) ==
    \E n \in 1..Len(path) : path[n] \in {"OMPSingleDirective", "OMPMasterDirective"}

\* The call has raised the error of a directive outside a serial region.
RaisedNoSerialRegion ==
    dir_outcome \in
        {"GenerationError: OMPTaskDirective must be inside an OMP Serial region",
         "GenerationError: OMPTaskloopDirective must be inside an OMP Serial region"}

\* C24: the validation of a Task or Taskloop directive that has no Single
\* or Master directive among its ancestors raises, whatever its body and
\* its other ancestors; a Task directive that has one passes.
C24_TaskNeedsSerialAncestor ==
    dir_outcome # "" =>
        /\ ~HasSerialAncestor(dir_node.path) => RaisedNoSerialRegion
        /\ HasSerialAncestor(dir_node.path) => ~RaisedNoSerialRegion
        /\ (dir_node.k = "OMPTaskDirective" /\ HasSerialAncestor(dir_node.path))
              => dir_outcome = "valid"

\* A taskloop directive in a loop of a parallel region, outside any serial
\* region, has been rejected, and so has a task directive.
C24_Witness ==
    /\ RaisedNoSerialRegion
    /\ Len(dir_node.path) >= 2
    /\ dir_node.path[1] = "Loop" /\ dir_node.path[2] = "OMPParallelDirective"
    /\ dir_node.body # <<>>

\* The serial directive is nested in another serial directive; it is in a
\* parallel region (an OMPParallelDirective that is no OMPParallelDoDirective).
NestedInSerial == HasSerialAncestor(ancestry)
InParallelRegion == \E n \in 1..Len(ancestry) : ancestry[n] = "OMPParallelDirective"

\* The validation of the task pairs has been started.
TaskPairsValidated == phase \in {"ins", "outs"} \/ task_pairs # <<>> \/ visited # {}

\* C25: the validation of a Single or Master directive that is nested in
\* another serial directive or is in no parallel region rejects it without
\* running the validation of the task pairs; otherwise the validation of the
\* task pairs runs to its end before the directive is reported valid, and
\* a rejection is never followed by that report.
C25_NestingChecksComeFirst ==
    /\ (phase # "idle" /\ (NestedInSerial \/ ~InParallelRegion)) =>
           /\ phase = "done"
           /\ verdict \in {"GenerationError: must be inside an OMP parallel region",
                            "GenerationError: must not be inside another OpenMP serial region"}
           /\ ~TaskPairsValidated
    /\ TaskPairsValidated => (~NestedInSerial /\ InParallelRegion)
    /\ verdict = "ok" =>
           /\ ~NestedInSerial /\ InParallelRegion
           /\ phase = "done" /\ task_pairs = <<>>
    /\ (phase = "done" /\ task_pairs # <<>>) => verdict \notin {"", "ok"}

\* A serial directive with two tasks that have dependencies, nested in a
\* Master directive of a parallel region, has been rejected without a look
\* at the tasks.
C25_Witness ==
    /\ phase = "done"
    /\ verdict = "GenerationError: must not be inside another OpenMP serial region"
    /\ Len(tasks) = 2 /\ tasks[1].children.in # <<>> /\ tasks[2].children.out # <<>>
    /\ Len(ancestry) >= 2
    /\ ancestry[1] = "OMPMasterDirective" /\ ancestry[2] = "OMPParallelDirective"
    /\ visited = {}

\* A serial directive in a parallel region has been reported valid after
\* the validation of the one pair of its tasks.
C25_ValidWitness ==
    /\ phase = "done" /\ verdict = "ok" /\ Len(tasks) = 2
    /\ tasks[1].children.out # <<>>

\* The task directive has the clause children it was constructed with.
HasPlaceholderClauses(task) == task.children = EmptyClauses

\* C27: the validation of the task pairs of a serial region runs only
\* when the clauses of every task of the region have been computed: it
\* never looks at a task that has the empty clauses it was constructed with.
C27_ValidatorSeesComputedClauses ==
    phase # "idle" => \A n \in 1..Len(tasks) : ~HasPlaceholderClauses(tasks[n])

\* The validation of a region with two tasks, one of which has the clauses
\* it was constructed with, has reported the region valid.
C27_PlaceholderWitness ==
    /\ phase = "done" /\ verdict = "ok" /\ Len(tasks) = 2
    /\ HasPlaceholderClauses(tasks[1]) /\ ~HasPlaceholderClauses(tasks[2])

\* The variables of the loops between the task and its parallel region,
\* innermost first.
EnclosingLoopVars == [n \in 1..Len(encl_loops) |-> encl_loops[n].variable]

\* C28: after any number of synthesis calls the task holds each loop
\* between it and its parallel region exactly once, innermost first, and
\* nothing else.
C28_ParentLoopsCollectedOnce ==
    runs >= 1 => (parent_loop_vars = EnclosingLoopVars /\ parent_loops = encl_loops)

\* After the first synthesis call the task holds each loop between it and
\* its parallel region exactly once.
C28_ParentLoopsAfterFirstCall ==
    runs = 1 => (parent_loop_vars = EnclosingLoopVars /\ parent_loops = encl_loops)

\* Every synthesis call adds the loops between the task and its parallel
\* region to the ones the task holds.
C28_ParentLoopsGrow ==
    /\ Len(parent_loop_vars) = runs * Len(encl_loops)
    /\ Len(parent_loops) = runs * Len(encl_loops)

\* A second call has returned and the task holds its enclosing loop twice.
C28_GrowthWitness ==
    status = "returned" /\ runs = 2 /\ Len(encl_loops) = 1 /\ Len(parent_loop_vars) = 2

\* The symbols the elements of a clause set refer to.
SymbolsOf(lst) == {lst[n].symbol : n \in 1..Len(lst)}

\* C29: in the clause sets a synthesis call returns, no symbol is in both
\* the private and the firstprivate set.
C29_PrivateAndFirstprivateDisjoint ==
    status = "returned" =>
        SymbolsOf(result.private) \cap SymbolsOf(result.firstprivate) = {}

\* In the clause sets a synthesis call returns, the variable of a loop of
\* the task is not in both the private and the firstprivate set.
C29_LoopVariablesInOneSet ==
    status = "returned" =>
        \A n \in 1..Len(WalkLoops(tree)) :
            WalkLoops(tree)[n] \notin
                SymbolsOf(result.private) \cap SymbolsOf(result.firstprivate)

\* A call has returned with a symbol in both sets.
C29_BothSetsWitness ==
    status = "returned"
        /\ SymbolsOf(result.private) \cap SymbolsOf(result.firstprivate) # {}

\* C30: in the clause sets a synthesis call returns, every entry of the
\* dependency-in and dependency-out sets refers to a symbol that is in the
\* shared set and in neither the private nor the firstprivate set.
C30_DependenciesAreShared ==
    status = "returned" =>
        LET deps == SymbolsOf(result.in) \cup SymbolsOf(result.out)
        IN /\ deps \subseteq SymbolsOf(result.shared)
           /\ deps \cap SymbolsOf(result.private) = {}
           /\ deps \cap SymbolsOf(result.firstprivate) = {}

\* In the clause sets a synthesis call returns, every array entry of the
\* dependency sets and every scalar or structure entry of the
\* dependency-out set refers to a symbol of the shared set.
C30_WrittenAndArrayDependenciesAreShared ==
    status = "returned" =>
        /\ SymbolsOf(result.out) \subseteq SymbolsOf(result.shared)
        /\ \A n \in 1..Len(result.in) :
              IsArrayReference(result.in[n]) =>
                  result.in[n].symbol \in SymbolsOf(result.shared)

\* In the clause sets a synthesis call returns, no entry of the dependency
\* sets refers to a symbol of the private set.
C30_DependenciesAreNotPrivate ==
    status = "returned" =>
        (SymbolsOf(result.in) \cup SymbolsOf(result.out))
            \cap SymbolsOf(result.private) = {}

(***************************************************************************)
(* Signature: equality, hash and order.                                    *)
(***************************************************************************)
\* The lexicographic order of two tuples of names: they agree before some
\* position, where the first tuple has ended and the second has not, or
\* where the first has the smaller name.
LexLess(s, t) ==
    \E i \in 1..(Len(s) + 1) :
        /\ \A j \in 1..(i - 1) : j <= Len(t) /\ s[j] = t[j]
        /\ \/ i > Len(s) /\ i <= Len(t)
           \/ i <= Len(s) /\ i <= Len(t) /\ str_rank(s[i]) < str_rank(t[i])

\* C26: two Signatures are equal if and only if their tuples of component
\* names are equal, however they were constructed (from a str, from a tuple,
\* or from a Signature and a sub_sig, whose tuples are concatenated); equal
\* Signatures have equal hashes; a Signature equals no value that is not a
\* Signature; and "<" is the lexicographic order of the tuples.
C26_SignatureEqualityHashAndOrder ==
    sig_cmp # None =>
        /\ sig_cmp.eq <=> (sig_a._signature = sig_b._signature)
        /\ sig_cmp.eq => sig_cmp.hash_a = sig_cmp.hash_b
        /\ sig_cmp.eq_others = {}
        /\ sig_cmp.lt <=> LexLess(sig_a._signature, sig_b._signature)

\* A Signature constructed from a tuple of two names and one constructed
\* from a str and a sub_sig have been compared and are equal; the hashes
\* are those of the Signatures, and differ from the hash of the sub_sig.
C26_Witness ==
    /\ sig_cmp # None
    /\ sig_how[1] = [variable |-> "tuple", sub_sig |-> FALSE]
    /\ sig_how[2] = [variable |-> "str", sub_sig |-> TRUE]
    /\ Len(sig_a._signature) = 2
    /\ sig_cmp.eq
    /\ ~sig_cmp.lt
    /\ sig_cmp.hash_a = sig_cmp.hash_b
    /\ sig_cmp.hash_a # tuple_hash(Tail(sig_a._signature))

====
